---- MODULE Spec2Model ----
(***************************************************************************)
(* Zoned date-time picker: the IXDTF codec (parseIxdtf, formatToIxdtf,     *)
(* parseDatoValue, buildDatoOutput) and the two field editors that load a  *)
(* stored value, hold {dateTime, timeZone} and persist the codec's output. *)
(*                                                                         *)
(* JavaScript strings are TLA+ strings (TLC evaluates Len, SubSeq and \o   *)
(* on them).  Instants are whole seconds since 1970-01-01T00:00:00Z (the   *)
(* wall times handled here carry no milliseconds), offsets are minutes.    *)
(* A local value of the code that is used several times is the parameter   *)
(* of a helper operator here, so that it is written once.                  *)
(***************************************************************************)
EXTENDS Integers, Sequences, FiniteSets, TLC

(***************************************************************************)
(* Text                                                                    *)
(***************************************************************************)

\* JS null / undefined where a string is expected (string | null).
Null == "<null>"

\* !x for x : string | null
Falsy(x) == x = Null \/ x = ""

DigitChars == "0123456789"

\* \d
DigitSet == {"0", "1", "2", "3", "4", "5", "6", "7", "8", "9"}

DigitVal(c) == (CHOOSE d \in 1..10 : SubSeq(DigitChars, d, d) = c) - 1

AllDigits(s, from, to) == \A i \in from..to : SubSeq(s, i, i) \in DigitSet

\* Number("0042") for a run of digits
RECURSIVE NumVal(_)
NumVal(s) ==
  IF Len(s) = 0 THEN 0
  ELSE 10 * NumVal(SubSeq(s, 1, Len(s) - 1)) + DigitVal(SubSeq(s, Len(s), Len(s)))

\* String(n) for n >= 0
RECURSIVE NumToString(_)
NumToString(n) ==
  IF n < 10 THEN SubSeq(DigitChars, n + 1, n + 1)
  ELSE NumToString(n \div 10) \o SubSeq(DigitChars, (n % 10) + 1, (n % 10) + 1)

\* padStart(n, 2) / padStart(n, 4) of luxon's formatters
Pad2(n) == IF n < 10 THEN "0" \o NumToString(n) ELSE NumToString(n)

Pad4(n) ==
  IF n < 10 THEN "000" \o NumToString(n)
  ELSE IF n < 100 THEN "00" \o NumToString(n)
  ELSE IF n < 1000 THEN "0" \o NumToString(n)
  ELSE NumToString(n)

\* \s
SpaceSet == {" ", "\t", "\n", "\r"}

AllSpace(s, from, to) == \A i \in from..to : SubSeq(s, i, i) \in SpaceSet

\* String.prototype.trim
Trim(s) ==
  IF AllSpace(s, 1, Len(s)) THEN ""
  ELSE SubSeq(s,
         CHOOSE i \in 1..Len(s) :
           SubSeq(s, i, i) \notin SpaceSet /\ AllSpace(s, 1, i - 1),
         CHOOSE j \in 1..Len(s) :
           SubSeq(s, j, j) \notin SpaceSet /\ AllSpace(s, j + 1, Len(s)))

(***************************************************************************)
(* Calendar arithmetic behind luxon's DateTime (objToLocalTS, tsToObj)     *)
(***************************************************************************)

IsLeapYear(y) == (y % 4 = 0 /\ y % 100 # 0) \/ y % 400 = 0

DaysInMonth(y, m) ==
  IF m = 2 THEN (IF IsLeapYear(y) THEN 29 ELSE 28)
  ELSE IF m \in {4, 6, 9, 11} THEN 30 ELSE 31

\* days from 1970-01-01 to the day doy (counted from 1 March) of the year yy
\* (years counted from March)
DaysFromMarchYear(yy, doy) ==
  (yy \div 400) * 146097
    + (yy % 400) * 365 + (yy % 400) \div 4 - (yy % 400) \div 100 + doy - 719468

\* days from 1970-01-01 to the proleptic Gregorian date y-m-d
DaysFromCivil(y, m, d) ==
  DaysFromMarchYear(IF m <= 2 THEN y - 1 ELSE y,
                    (153 * (IF m > 2 THEN m - 3 ELSE m + 9) + 2) \div 5 + d - 1)

\* the date of day doy (counted from 1 March, month mp counted from March)
\* of the March-based year yy
CivilOfMonth(yy, doy, mp) ==
  [year  |-> yy + (IF mp < 10 THEN 0 ELSE 1),
   month |-> IF mp < 10 THEN mp + 3 ELSE mp - 9,
   day   |-> doy - (153 * mp + 2) \div 5 + 1]

CivilOfYearDay(yy, doy) == CivilOfMonth(yy, doy, (5 * doy + 2) \div 153)

\* era: the 400-year cycle; doe: the day in it; yoe: the year in it
CivilOfEra(era, doe, yoe) ==
  CivilOfYearDay(yoe + era * 400, doe - (365 * yoe + yoe \div 4 - yoe \div 100))

CivilOfEraDay(era, doe) ==
  CivilOfEra(era, doe,
    (doe - doe \div 1460 + doe \div 36524 - doe \div 146096) \div 365)

\* the inverse of DaysFromCivil: the date that lies z days after 1970-01-01
CivilFromDays(z) ==
  CivilOfEraDay((z + 719468) \div 146097, (z + 719468) % 146097)

\* luxon objToLocalTS: the wall-clock fields read as if they were UTC
ObjToLocalTS(c) ==
  DaysFromCivil(c.year, c.month, c.day) * 86400
    + c.hour * 3600 + c.minute * 60 + c.second

\* the wall-clock fields of a date and a second of the day
FieldsOf(date, secs) ==
  [year |-> date.year, month |-> date.month, day |-> date.day,
   hour |-> secs \div 3600, minute |-> (secs % 3600) \div 60,
   second |-> secs % 60]

\* TsToObj giving the fields of the instant in UTC, whatever the offset
TsToObjUtc(ts, o) == FieldsOf(CivilFromDays(ts \div 86400), ts % 86400)

\* luxon tsToObj: the wall-clock fields of instant ts at offset o (minutes)
TsToObj(ts, o) ==
  FieldsOf(CivilFromDays((ts + o * 60) \div 86400), (ts + o * 60) % 86400)

(***************************************************************************)
(* Time zones: the runtime's zone database as luxon reads it.  The table   *)
(* holds the rules of the years 1996 and 2025, the years of every wall     *)
(* time and every "now" of this model.                                     *)
(***************************************************************************)

\* luxon normalizeZone: "utc" and "gmt" (any case) are the fixed-offset UTC
\* zone (isUniversal), every other name is looked up as an IANA zone
UniversalNames == {"UTC", "utc", "GMT", "gmt"}

IANAZones ==
  {"America/Chicago", "America/Los_Angeles", "America/Phoenix", "Europe/Rome",
   "Asia/Kolkata", "Etc/UTC"}

IsValidZone(z) == z \in UniversalNames \/ z \in IANAZones

IsUniversal(z) == z \in UniversalNames

\* standard-time offset (minutes) in force before the first listed transition
ZoneBaseOffset(z) ==
  CASE z = "America/Chicago"     -> -360
    [] z = "America/Los_Angeles" -> -480
    [] z = "America/Phoenix"     -> -420
    [] z = "Europe/Rome"         -> 60
    [] z = "Asia/Kolkata"        -> 330
    [] OTHER                     -> 0

\* <<instant, offset from then on>>, ascending
ZoneTransitions(z) ==
  CASE z = "America/Chicago" ->
         << <<828864000, -300>>, <<846399600, -360>>,
            <<1741507200, -300>>, <<1762066800, -360>> >>
    [] z = "America/Los_Angeles" ->
         << <<828871200, -420>>, <<846406800, -480>>,
            <<1741514400, -420>>, <<1762074000, -480>> >>
    [] z = "Europe/Rome" ->
         << <<828234000, 120>>, <<846378000, 60>>,
            <<1743296400, 120>>, <<1761440400, 60>> >>
    [] OTHER -> << >>

\* the offset of the last of the transitions tr at or before ts
OffsetAfter(tr, ts, base) ==
  IF \A i \in 1..Len(tr) : tr[i][1] > ts THEN base
  ELSE tr[CHOOSE i \in 1..Len(tr) :
            tr[i][1] <= ts /\ \A j \in (i + 1)..Len(tr) : tr[j][1] > ts][2]

\* Zone.offset(ts): the zone's UTC offset in minutes at instant ts
ZoneOffset(z, ts) == OffsetAfter(ZoneTransitions(z), ts, ZoneBaseOffset(z))

OffsetsOf(tr, base) == {base} \cup {tr[i][2] : i \in 1..Len(tr)}

\* every offset the zone ever has
ZoneOffsets(z) == OffsetsOf(ZoneTransitions(z), ZoneBaseOffset(z))

(***************************************************************************)
(* luxon DateTime                                                          *)
(***************************************************************************)

InvalidDateTime == [isValid |-> FALSE, ts |-> 0, o |-> 0, zone |-> Null]

\* The ISO grammar as far as the editor's state needs it: YYYY-MM-DDTHH:mm:ss.
\* Every other text this model hands to fromISO is no ISO 8601 text at all.
IsLocalIso(text) ==
  /\ Len(text) = 19
  /\ AllDigits(text, 1, 4) /\ SubSeq(text, 5, 5) = "-"
  /\ AllDigits(text, 6, 7) /\ SubSeq(text, 8, 8) = "-"
  /\ AllDigits(text, 9, 10) /\ SubSeq(text, 11, 11) = "T"
  /\ AllDigits(text, 12, 13) /\ SubSeq(text, 14, 14) = ":"
  /\ AllDigits(text, 15, 16) /\ SubSeq(text, 17, 17) = ":"
  /\ AllDigits(text, 18, 19)

IsoFields(text) ==
  [year   |-> NumVal(SubSeq(text, 1, 4)),
   month  |-> NumVal(SubSeq(text, 6, 7)),
   day    |-> NumVal(SubSeq(text, 9, 10)),
   hour   |-> NumVal(SubSeq(text, 12, 13)),
   minute |-> NumVal(SubSeq(text, 15, 16)),
   second |-> NumVal(SubSeq(text, 18, 19))]

\* luxon hasInvalidGregorianData / hasInvalidTimeData
HasValidUnits(c) ==
  /\ c.month \in 1..12
  /\ c.day \in 1..DaysInMonth(c.year, c.month)
  /\ \/ c.hour \in 0..23
     \/ c.hour = 24 /\ c.minute = 0 /\ c.second = 0
  /\ c.minute \in 0..59
  /\ c.second \in 0..59

\* fixOffset, last step: o3 is the zone's offset at the second guess.  If it
\* differs from o2 the wall time is in a gap ("hole time"): the time is not
\* adjusted, the later instant and the larger offset are taken.
FixOffsetHole(localTS, o2, o3) ==
  IF o2 = o3 THEN <<localTS - o2 * 60, o2>>
  ELSE <<localTS - (IF o2 < o3 THEN o2 ELSE o3) * 60,
         IF o2 < o3 THEN o3 ELSE o2>>

\* fixOffset, second step: o2 is the zone's offset at the first guess
\* utcGuess = localTS - o * 60; the second guess is utcGuess - (o2 - o) * 60
FixOffsetRetry(localTS, o, o2, z) ==
  IF o = o2 THEN <<localTS - o * 60, o>>
  ELSE FixOffsetHole(localTS, o2,
         ZoneOffset(z, (localTS - o * 60) - (o2 - o) * 60))

\* luxon fixOffset: find the instant whose wall time in zone z is localTS,
\* starting from a guessed offset o.  Returns <<ts, offset>>.
FixOffset(localTS, o, z) ==
  FixOffsetRetry(localTS, o, ZoneOffset(z, localTS - o * 60), z)

DateTimeOf(fixed, zone) ==
  [isValid |-> TRUE, ts |-> fixed[1], o |-> fixed[2], zone |-> zone]

\* DateTime.fromObject: the guessed offset is the zone's offset at the
\* current instant (Settings.now())
FromObject(c, zone, nowTs) ==
  IF ~HasValidUnits(c) THEN InvalidDateTime
  ELSE DateTimeOf(FixOffset(ObjToLocalTS(c), ZoneOffset(zone, nowTs), zone), zone)

\* DateTime.fromISO(text, { zone })
FromISO(text, zone, nowTs) ==
  IF ~IsValidZone(zone) \/ ~IsLocalIso(text) THEN InvalidDateTime
  ELSE FromObject(IsoFields(text), zone, nowTs)

AbsVal(n) == IF n < 0 THEN -n ELSE n

\* luxon formatOffset(offset, "short"), the token ZZ: +HH:MM
FormatOffsetShort(o) ==
  (IF o >= 0 THEN "+" ELSE "-")
    \o Pad2(AbsVal(o) \div 60) \o ":" \o Pad2(AbsVal(o) % 60)

\* tokens yyyy-LL-dd and HH:mm:ss
FormatDate(c) == Pad4(c.year) \o "-" \o Pad2(c.month) \o "-" \o Pad2(c.day)

FormatTime24(c) == Pad2(c.hour) \o ":" \o Pad2(c.minute) \o ":" \o Pad2(c.second)

\* token hh: the 12-hour clock
Hour12(h) == IF h % 12 = 0 THEN 12 ELSE h % 12

FormatTime12(c) ==
  Pad2(Hour12(c.hour)) \o ":" \o Pad2(c.minute) \o ":" \o Pad2(c.second)

FormatLocal(c) == FormatDate(c) \o "T" \o FormatTime24(c)

\* dt.toFormat("yyyy-LL-dd'T'HH:mm:ss")
ToLocalFormat(dt) ==
  IF ~dt.isValid THEN "Invalid DateTime"
  ELSE FormatLocal(TsToObj(dt.ts, dt.o))

\* the offset part of toISO: a zone with a fixed zero offset is written "Z",
\* every other offset as +HH:MM
IsoOffset(zone, o) ==
  IF IsUniversal(zone) /\ o = 0 THEN "Z" ELSE FormatOffsetShort(o)

\* dt.toISO({ suppressMilliseconds: true, includeOffset: true })
ToISO(dt) == FormatLocal(TsToObj(dt.ts, dt.o)) \o IsoOffset(dt.zone, dt.o)

(***************************************************************************)
(* IXDTF string codec                                                      *)
(***************************************************************************)

\* type ZonedValue = { dateTime?: string | null; timeZone?: string | null }
ZonedValue(dt, tz) == [dateTime |-> dt, timeZone |-> tz]

EmptyZonedValue == ZonedValue(Null, Null)

\* /^\d{4}-\d{2}-\d{2}T\d{2}:\d{2}/ matches at the start of s
HasMinutePrefix(s) ==
  /\ Len(s) >= 16
  /\ AllDigits(s, 1, 4) /\ SubSeq(s, 5, 5) = "-"
  /\ AllDigits(s, 6, 7) /\ SubSeq(s, 8, 8) = "-"
  /\ AllDigits(s, 9, 10) /\ SubSeq(s, 11, 11) = "T"
  /\ AllDigits(s, 12, 13) /\ SubSeq(s, 14, 14) = ":"
  /\ AllDigits(s, 15, 16)

\* LocalMatch with the optional seconds group left out of the expression
LocalMatchNoSeconds(s) ==
  IF ~HasMinutePrefix(s) THEN Null ELSE SubSeq(s, 1, 16)

\* s.match(/^(\d{4}-\d{2}-\d{2}T\d{2}:\d{2}(?::\d{2})?)/): group 1, or Null
LocalMatch(s) ==
  IF ~HasMinutePrefix(s) THEN Null
  ELSE IF Len(s) >= 19 /\ SubSeq(s, 17, 17) = ":" /\ AllDigits(s, 18, 19)
       THEN SubSeq(s, 1, 19)
       ELSE SubSeq(s, 1, 16)

\* /^\d{4}-\d{2}-\d{2}T\d{2}:\d{2}$/.test(dt) ? `${dt}:00` : dt
ensureSeconds(dt) ==
  IF Len(dt) = 16 /\ HasMinutePrefix(dt) THEN dt \o ":00" ELSE dt

\* m ? ensureSeconds(m[1]) : null
MatchedDateTime(m) == IF m # Null THEN ensureSeconds(m) ELSE Null

\* the "]" that closes the bracket opened at index i
ClosesAt(s, i, j) ==
  SubSeq(s, j, j) = "]" /\ \A k \in (i + 1)..(j - 1) : SubSeq(s, k, k) # "]"

\* /\[([^\]]+)\]\s*$/ matches starting at index i
ZoneMatchesAt(s, i) ==
  /\ SubSeq(s, i, i) = "["
  /\ \E j \in (i + 2)..Len(s) : ClosesAt(s, i, j) /\ AllSpace(s, j + 1, Len(s))

HasZoneMatch(s) == \E i \in 1..Len(s) : ZoneMatchesAt(s, i)

\* zoneMatch.index (1-based): a regular expression takes the leftmost match
ZoneMatchIndex(s) ==
  CHOOSE i \in 1..Len(s) :
    ZoneMatchesAt(s, i) /\ \A k \in 1..(i - 1) : ~ZoneMatchesAt(s, k)

\* zoneMatch[1] of the match at index i
ZoneMatchGroup(s, i) ==
  SubSeq(s, i + 1, (CHOOSE j \in (i + 2)..Len(s) : ClosesAt(s, i, j)) - 1)

\* ParseZoned giving up the zone when no date-time prefix is found
ParseZonedAllOrNothing(trimmed, i) ==
  IF LocalMatch(Trim(SubSeq(trimmed, 1, i - 1))) = Null THEN EmptyZonedValue
  ELSE ZonedValue(MatchedDateTime(LocalMatch(Trim(SubSeq(trimmed, 1, i - 1)))),
                  ZoneMatchGroup(trimmed, i))

\* parseIxdtf when the bracket suffix matches at index i:
\* withoutZone = trimmed.slice(0, zoneMatch.index).trim()
ParseZoned(trimmed, i) ==
  ZonedValue(MatchedDateTime(LocalMatch(Trim(SubSeq(trimmed, 1, i - 1)))),
             ZoneMatchGroup(trimmed, i))

\* parseIxdtf after const trimmed = (input ?? "").trim()
ParseTrimmed(trimmed) ==
  IF trimmed = "" THEN EmptyZonedValue
  ELSE IF HasZoneMatch(trimmed) THEN ParseZoned(trimmed, ZoneMatchIndex(trimmed))
  ELSE ZonedValue(MatchedDateTime(LocalMatch(trimmed)), Null)

parseIxdtf(input) == ParseTrimmed(Trim(IF input = Null THEN "" ELSE input))

\* formatToIxdtf after const dt = DateTime.fromISO(dateTime, { zone: timeZone })
IxdtfOf(dt, timeZone) ==
  IF ~dt.isValid THEN Null
  ELSE ToISO(dt) \o "[" \o timeZone \o "]"

\* formatToIxdtf falling back to UTC when no zone is chosen
formatToIxdtfDefaultZone(value, nowTs) ==
  IF Falsy(value.dateTime) THEN Null
  ELSE IF Falsy(value.timeZone)
  THEN IxdtfOf(FromISO(value.dateTime, "UTC", nowTs), "UTC")
  ELSE IxdtfOf(FromISO(value.dateTime, value.timeZone, nowTs), value.timeZone)

\* formatToIxdtf(value), evaluated at the instant nowTs
formatToIxdtf(value, nowTs) ==
  IF Falsy(value.dateTime) \/ Falsy(value.timeZone) THEN Null
  ELSE IxdtfOf(FromISO(value.dateTime, value.timeZone, nowTs), value.timeZone)

(***************************************************************************)
(* JSON values and the structured codec                                    *)
(***************************************************************************)

\* A JSON value: its kind, its text when it is a string or a number, its
\* members when it is an object.
JNull == [type |-> "null", val |-> "", obj |-> << >>]

Undefined == [type |-> "undefined", val |-> "", obj |-> << >>]

JString(s) == [type |-> "string", val |-> s, obj |-> << >>]

JNumber(digits) == [type |-> "number", val |-> digits, obj |-> << >>]

JArray == [type |-> "array", val |-> "", obj |-> << >>]

JObject(members) == [type |-> "object", val |-> "", obj |-> members]

\* input && typeof input === "object"
IsTruthyObject(v) == v.type \in {"object", "array"}

\* anyVal[key]
Member(v, key) == IF key \in DOMAIN v.obj THEN v.obj[key] ELSE Undefined

\* typeof anyVal[key] === "string" ? anyVal[key] : null
StringOrNull(v, key) ==
  IF key \in DOMAIN v.obj /\ v.obj[key].type = "string" THEN v.obj[key].val
  ELSE Null

\* strategy 3: typeof input.zonedDateTime === "string"
ParseZonedDateTimeMember(zdt) ==
  IF zdt.type = "string" THEN parseIxdtf(zdt.val) ELSE EmptyZonedValue

\* the strategies of parseDatoValue, in the order of the code, over the
\* members read from the object; time24 ?? time is the first that is not null
ParseMembers(zone, dateTime, date, time24, time, zdt) ==
  IF ~Falsy(zone) /\ ~Falsy(dateTime)
  THEN ZonedValue(MatchedDateTime(LocalMatch(dateTime)), zone)
  ELSE IF ~Falsy(zone) /\ ~Falsy(date) /\ (~Falsy(time24) \/ ~Falsy(time))
  THEN ZonedValue(
         ensureSeconds(date \o "T" \o (IF time24 # Null THEN time24 ELSE time)),
         zone)
  ELSE ParseZonedDateTimeMember(zdt)

parseDatoValue(input) ==
  IF ~IsTruthyObject(input) THEN EmptyZonedValue
  ELSE ParseMembers(StringOrNull(input, "zone"),
                    StringOrNull(input, "dateTime"),
                    StringOrNull(input, "date"),
                    StringOrNull(input, "time_24hr"),
                    StringOrNull(input, "time"),
                    Member(input, "zonedDateTime"))

\* PayloadFields with the timestamp taken from the wall clock, the offset
\* not subtracted
PayloadFieldsLocalEpoch(isoWithOffset, c, dt, timeZone) ==
  ("zonedDateTime" :> JString(isoWithOffset \o "[" \o timeZone \o "]"))
    @@ ("dateTime"  :> JString(isoWithOffset))
    @@ ("zone"      :> JString(timeZone))
    @@ ("offset"    :> JString(FormatOffsetShort(dt.o)))
    @@ ("date"      :> JString(FormatDate(c)))
    @@ ("time_24hr" :> JString(FormatTime24(c)))
    @@ ("time_12hr" :> JString(FormatTime12(c)))
    @@ ("ampm"      :> JString(IF c.hour >= 12 THEN "pm" ELSE "am"))
    @@ ("timestamp" :> JString(NumToString(ObjToLocalTS(c))))

\* PayloadFields with ampm = dt.hour > 12 ? "pm" : "am"
PayloadFieldsNoonAm(isoWithOffset, c, dt, timeZone) ==
  ("zonedDateTime" :> JString(isoWithOffset \o "[" \o timeZone \o "]"))
    @@ ("dateTime"  :> JString(isoWithOffset))
    @@ ("zone"      :> JString(timeZone))
    @@ ("offset"    :> JString(FormatOffsetShort(dt.o)))
    @@ ("date"      :> JString(FormatDate(c)))
    @@ ("time_24hr" :> JString(FormatTime24(c)))
    @@ ("time_12hr" :> JString(FormatTime12(c)))
    @@ ("ampm"      :> JString(IF c.hour > 12 THEN "pm" ELSE "am"))
    @@ ("timestamp" :> JString(NumToString(dt.ts)))

\* the object buildDatoOutput returns: isoWithOffset is dt.toISO(...), c the
\* wall-clock fields of dt
PayloadFields(isoWithOffset, c, dt, timeZone) ==
  ("zonedDateTime" :> JString(isoWithOffset \o "[" \o timeZone \o "]"))
    @@ ("dateTime"  :> JString(isoWithOffset))
    @@ ("zone"      :> JString(timeZone))
    @@ ("offset"    :> JString(FormatOffsetShort(dt.o)))
    @@ ("date"      :> JString(FormatDate(c)))
    @@ ("time_24hr" :> JString(FormatTime24(c)))
    @@ ("time_12hr" :> JString(FormatTime12(c)))
    @@ ("ampm"      :> JString(IF c.hour >= 12 THEN "pm" ELSE "am"))
    @@ ("timestamp" :> JString(NumToString(dt.ts)))

\* PayloadOf without the test of dt.isValid
PayloadOfUnchecked(dt, timeZone) ==
  PayloadFields(ToISO(dt), TsToObj(dt.ts, dt.o), dt, timeZone)

\* buildDatoOutput after const dt = DateTime.fromISO(dateTime, { zone })
PayloadOf(dt, timeZone) ==
  IF ~dt.isValid THEN << >>
  ELSE PayloadFields(ToISO(dt), TsToObj(dt.ts, dt.o), dt, timeZone)

\* buildDatoOutput(value), evaluated at the instant nowTs; << >> is {}
buildDatoOutput(value, nowTs) ==
  IF Falsy(value.dateTime) \/ Falsy(value.timeZone) THEN << >>
  ELSE PayloadOf(FromISO(value.dateTime, value.timeZone, nowTs), value.timeZone)

(***************************************************************************)
(* The stored field value: ctx.formValues[fieldPath], a text or null.  A   *)
(* text is kept either as written (kind "raw") or, when it is the text     *)
(* JSON.stringify gives for a value, as that value (kind "json").          *)
(***************************************************************************)

NullField == [kind |-> "null", text |-> "", json |-> JNull]

RawText(s) == [kind |-> "raw", text |-> s, json |-> JNull]

\* JSON.stringify(v, null, 2)
JSONstringify(v) == [kind |-> "json", text |-> "", json |-> v]

\* a string | null handed to setFieldValue
TextOrNull(s) == IF s = Null THEN NullField ELSE RawText(s)

\* JSON.parse of a text that is not the output of JSON.stringify: only the
\* literals null and a number parse, anything else is a SyntaxError
ParseLiteral(t) ==
  IF t = "null" THEN [ok |-> TRUE, value |-> JNull]
  ELSE IF Len(t) > 0 /\ AllDigits(t, 1, Len(t))
          /\ (Len(t) = 1 \/ SubSeq(t, 1, 1) # "0")
  THEN [ok |-> TRUE, value |-> JNumber(t)]
  ELSE [ok |-> FALSE, value |-> JNull]

\* JSON.parse(rawField): [ok |-> FALSE] stands for the SyntaxError it throws;
\* null is coerced to the text "null"
JSONparse(field) ==
  IF field.kind = "json" THEN [ok |-> TRUE, value |-> field.json]
  ELSE IF field.kind = "null" THEN [ok |-> TRUE, value |-> JNull]
  ELSE ParseLiteral(Trim(field.text))

(***************************************************************************)
(* Sample inputs                                                           *)
(***************************************************************************)

\* Dates on and off the DST changes of 2025 (America/Chicago: gap on
\* 2025-03-09, overlap on 2025-11-02; Europe/Rome: gap on 2025-03-30,
\* overlap on 2025-10-26) and the README's 1996-12-19.
SampleDates ==
  << "2025-01-15", "2025-03-09", "2025-07-15", "2025-11-02", "1996-12-19",
     "2025-03-30", "2025-10-26" >>

\* how many of SampleDates the model uses
NumDates == 5

Dates ==
  {SampleDates[i] : i \in 1..(IF NumDates < Len(SampleDates) THEN NumDates
                              ELSE Len(SampleDates))}

Times == {"01:30:00", "02:30:00", "12:00:00", "16:39:57"}

WallTimes == {d \o "T" \o t : d \in Dates, t \in Times}

\* the zones the picker offers: UTC and the runtime's supported zones
ZoneChoices ==
  {"UTC", "America/Chicago", "America/Los_Angeles", "Europe/Rome", "Asia/Kolkata",
   "Etc/UTC"}

\* the instants at which the editor runs: 2025-01-15, 2025-07-15 and
\* 2025-12-15, 12:00 UTC
NowSamples == <<1736942400, 1752580800, 1765800000>>

BrowserZones == {"UTC", "America/Chicago", "Europe/Rome"}

\* T + numeric offset + [zone], for every offset the zone has at some time
NumericIxdtf ==
  UNION {{T \o FormatOffsetShort(o) \o "[" \o z \o "]" :
            T \in WallTimes, o \in ZoneOffsets(z)} : z \in ZoneChoices}

\* what formatToIxdtf has written for the sample values at the sample instants
WrittenIxdtf ==
  {formatToIxdtf(ZonedValue(T, z), NowSamples[n]) :
     T \in WallTimes, z \in ZoneChoices, n \in 1..Len(NowSamples)}

OddTexts ==
  {"", "   ", "garbage", "2025-01-15T12:00", "[Europe/Rome]",
   "2025-01-15T12:00[Europe/Rome]", "2025-01-15T12:00:00+01:00[]",
   "  2025-07-15T12:00:00+02:00 [Europe/Rome] \n",
   "2025-13-45T25:61:00+01:00[Europe/Rome]",
   "2025-01-15T12:00:00+01:00[Nowhere/Land]",
   "2025-01-15T12:00:00+01:00[a][Asia/Kolkata]", "x[[Europe/Rome]",
   "2025-01-15T12:00:5[Europe/Rome]x", "2025-01-15 12:00:00[utc]"}

\* what a text field may hold when the IXDTF editor mounts
StoredStrings ==
  {NullField} \cup {RawText(s) : s \in NumericIxdtf \cup WrittenIxdtf \cup OddTexts}

\* the payloads buildDatoOutput has written
WrittenPayloads ==
  {JObject(buildDatoOutput(ZonedValue(T, z), NowSamples[n])) :
     T \in WallTimes, z \in ZoneChoices, n \in 1..Len(NowSamples)}

\* objects of older or unexpected shapes
LegacyObjects ==
  LET Z  == "zone" :> JString("Europe/Rome")
      D  == "date" :> JString("1996-12-19")
      T  == "time_24hr" :> JString("16:39:57")
      Tl == "time" :> JString("16:39")
      X  == "zonedDateTime" :>
              JString("2025-07-15T12:00:00-05:00[America/Chicago]")
  IN {JObject(Z @@ D @@ T),
      JObject(Z @@ D @@ Tl),
      JObject(Z @@ D @@ T @@ Tl),
      JObject(Z @@ D @@ ("time_24hr" :> JString("")) @@ Tl),
      JObject(Z @@ D @@ ("time_24hr" :> JNumber("16")) @@ Tl),
      JObject(Z @@ D),
      JObject(Z @@ D @@ ("time" :> JString("4:39 PM"))),
      JObject(Z @@ D @@ X),
      JObject(Z @@ ("dateTime" :> JString("2025-01-15T12:00+01:00")) @@ D @@ T),
      JObject(Z @@ ("dateTime" :> JString("garbage")) @@ D @@ T),
      JObject(Z @@ ("dateTime" :> JString("garbage")) @@ X),
      JObject(("zone" :> JNumber("1")) @@ D @@ T @@ X),
      JObject(("zone" :> JString("")) @@ D @@ T @@ X),
      JObject(X),
      JObject(D @@ T),
      JObject("zonedDateTime" :> JString("garbage")),
      JObject("zonedDateTime" :> JNumber("42")),
      JObject(<< >>)}

\* what a JSON field may hold when the JSON editor mounts
StoredJson ==
  {NullField}
    \cup {RawText(s) : s \in
            {"", "garbage", "null", "42",
             "1996-12-19T16:39:57-08:00[America/Los_Angeles]"}}
    \cup {JSONstringify(v) : v \in WrittenPayloads \cup LegacyObjects}
    \cup {JSONstringify(v) : v \in
            {JNull, JArray, JNumber("42"),
             JString("1996-12-19T16:39:57-08:00[America/Los_Angeles]")}}

(***************************************************************************)
(* The zone option list                                                    *)
(***************************************************************************)

\* Intl.supportedValuesOf("timeZone") of a runtime that has it
RuntimeTimeZones ==
  << "America/Chicago", "America/Los_Angeles", "America/Phoenix", "Asia/Kolkata",
     "Etc/UTC", "Europe/Rome" >>

\* getSupportedTimeZones without the typeof test and the try
getSupportedTimeZonesUnguarded(intl, enumerated) == enumerated

\* getSupportedTimeZones(); intl says whether Intl.supportedValuesOf is a
\* function ("ok"), is a function that throws ("throws") or is missing
\* and enumerated is what a working Intl.supportedValuesOf returns
getSupportedTimeZones(intl, enumerated) ==
  IF intl # "missing"
  THEN (IF intl = "throws" THEN << >> ELSE enumerated)
  ELSE << >>

\* tz.split("/")[0]
FirstSegment(tz) ==
  IF \A i \in 1..Len(tz) : SubSeq(tz, i, i) # "/" THEN tz
  ELSE SubSeq(tz, 1,
         (CHOOSE i \in 1..Len(tz) :
            SubSeq(tz, i, i) = "/" /\ \A k \in 1..(i - 1) : SubSeq(tz, k, k) # "/") - 1)

\* groupForTimeZone without the test for UTC, GMT and Etc/
groupForTimeZoneBySegment(tz) ==
  IF FirstSegment(tz) = "" THEN "Other" ELSE FirstSegment(tz)

groupForTimeZone(tz) ==
  IF tz = "UTC" \/ tz = "GMT" \/ (Len(tz) >= 4 /\ SubSeq(tz, 1, 4) = "Etc/")
  THEN "Etc"
  ELSE IF FirstSegment(tz) = "" THEN "Other"
  ELSE FirstSegment(tz)

\* OffsetString with the hours padded to two digits
OffsetStringPadded(offsetMin) ==
  "UTC" \o (IF offsetMin >= 0 THEN "+" ELSE "-")
    \o Pad2(AbsVal(offsetMin) \div 60)
    \o (IF AbsVal(offsetMin) % 60 # 0 THEN ":" \o Pad2(AbsVal(offsetMin) % 60)
        ELSE "")

\* `UTC${sign}${hours}${mm}` for an offset of offsetMin minutes
OffsetString(offsetMin) ==
  "UTC" \o (IF offsetMin >= 0 THEN "+" ELSE "-")
    \o NumToString(AbsVal(offsetMin) \div 60)
    \o (IF AbsVal(offsetMin) % 60 # 0 THEN ":" \o Pad2(AbsVal(offsetMin) % 60)
        ELSE "")

\* utcOffsetStringForZone(timeZone, at), with
\* offsetMin = DateTime.fromJSDate(at, { zone: timeZone }).offset
utcOffsetStringForZone(timeZone, at) == OffsetString(ZoneOffset(timeZone, at))

\* getZoneLongName(locale, timeZone, at): the runtime's generic long name of
\* the zone in English, Null when the runtime has none
getZoneLongName(timeZone) ==
  CASE timeZone = "America/Chicago"     -> "Central Time"
    [] timeZone = "America/Los_Angeles" -> "Pacific Time"
    [] timeZone = "America/Phoenix"     -> "Mountain Time"
    [] timeZone = "Europe/Rome"         -> "Central European Time"
    [] timeZone = "Asia/Kolkata"        -> "India Standard Time"
    [] timeZone \in {"UTC", "Etc/UTC"}  -> "Coordinated Universal Time"
    [] OTHER                            -> Null

\* zoneToCountry.get(tz) ?? null, from the rows of zone.tab
ZoneCountry(tz) ==
  CASE tz \in {"America/Chicago", "America/Los_Angeles", "America/Phoenix"} -> "US"
    [] tz = "Europe/Rome"  -> "IT"
    [] tz = "Asia/Kolkata" -> "IN"
    [] OTHER               -> Null

REGIONAL_INDICATOR_A == 127462

ASCII_UPPERCASE_A == 65

\* the code points REGIONAL_INDICATOR_A + (c - ASCII_UPPERCASE_A) for the codes
\* c = 32 to 126, in order; the regional indicator symbols of A to Z are
\* those of c = 65 to 90.  Each code point is written as one character, the
\* circled letter for a regional indicator symbol: like the code points they
\* stand for, these are symbols without case or decomposition
IndicatorPlane ==
  "⒕⒖⒗⒘⒙⒚⒛⒜⒝⒞⒟⒠⒡⒢⒣⒤⒥⒦⒧⒨⒩⒪⒫⒬⒭⒮⒯⒰⒱⒲⒳⒴⒵ⒶⒷⒸⒹⒺⒻⒼⒽⒾⒿⓀⓁⓂⓃⓄⓅⓆⓇⓈⓉⓊⓋⓌⓍⓎⓏⓐⓑⓒⓓⓔⓕⓖⓗⓘⓙⓚⓛⓜⓝⓞⓟⓠⓡⓢⓣⓤⓥⓦⓧⓨⓩ⓪⓫⓬⓭⓮⓯⓰⓱⓲⓳"

\* regionalIndicatorFor(cc[i]) after cc = countryCode.toUpperCase(), as text.
\* AsciiChars are the characters with the codes 32 to 126, in order (the
\* grave accent, code 96, is written as an acute accent)
regionalIndicatorFor(ch) ==
  LET AsciiChars ==
        " !\"#$%&'()*+,-./0123456789:;<=>?@ABCDEFGHIJKLMNOPQRSTUVWXYZ[\\]^_´abcdefghijklmnopqrstuvwxyz{|}~"
      code == 31 + (CHOOSE i \in 1..Len(AsciiChars) : SubSeq(AsciiChars, i, i) = ch)
      upper == IF code >= 97 /\ code <= 122 THEN code - 32 ELSE code
      n == REGIONAL_INDICATOR_A + (upper - ASCII_UPPERCASE_A)
  IN  SubSeq(IndicatorPlane, n - (REGIONAL_INDICATOR_A - 33) + 1,
                             n - (REGIONAL_INDICATOR_A - 33) + 1)

toFlagEmoji(countryCode) ==
  IF countryCode = "" \/ Len(countryCode) # 2 THEN ""
  ELSE regionalIndicatorFor(SubSeq(countryCode, 1, 1))
         \o regionalIndicatorFor(SubSeq(countryCode, 2, 2))

\* cc ? `${toFlagEmoji(cc)} ` : ""
FlagPrefix(cc) == IF cc = Null THEN "" ELSE toFlagEmoji(cc) \o " "

\* `${tz} (${offset}${localized && localized !== tz ? `, ${localized}` : ""})`
\* with localized = getZoneLongName(...) ?? tz
LabelBase(tz, offset, longName) ==
  tz \o " (" \o offset
     \o (IF longName # Null /\ longName # "" /\ longName # tz
         THEN ", " \o longName ELSE "")
     \o ")"

\* the return statements of makeZoneLabel; labels.browser and labels.site are
\* the English ones, the globe symbol is written as a shaded circle
LabelOf(tz, kind, flag, base, browserTimeZone, siteTimeZone) ==
  IF tz = "UTC" THEN "◍ " \o base
  ELSE IF kind = "suggested" /\ tz = browserTimeZone
  THEN flag \o "Your browser: " \o base
  ELSE IF kind = "suggested" /\ ~Falsy(siteTimeZone) /\ tz = siteTimeZone
  THEN flag \o "This project: " \o base
  ELSE flag \o base

makeZoneLabel(tz, kind, at, browserTimeZone, siteTimeZone) ==
  LabelOf(tz, kind, FlagPrefix(ZoneCountry(tz)),
          LabelBase(tz, utcOffsetStringForZone(tz, at), getZoneLongName(tz)),
          browserTimeZone, siteTimeZone)

\* the characters normalizeForSearch changes or keeps: fold maps a letter
\* with a combining mark to its base letter (normalize("NFD") and the removal
\* of \u0300-\u036f) in lower case, and an upper-case letter to its
\* lower-case letter (toLowerCase); alnum is the class [a-z0-9]
SearchChars ==
  LET Accented == "áàâãäåçéèêëíìîïñóòôõöúùûüýÁÀÂÃÄÅÇÉÈÊËÍÌÎÏÑÓÒÔÕÖÚÙÛÜÝ"
      Bases    == "aaaaaaceeeeiiiinooooouuuuyaaaaaaceeeeiiiinooooouuuuy"
      Upper    == "ABCDEFGHIJKLMNOPQRSTUVWXYZ"
      Lower    == "abcdefghijklmnopqrstuvwxyz"
      Alnum    == "0123456789abcdefghijklmnopqrstuvwxyz"
  IN  [fold |->
         [c \in {SubSeq(Accented, i, i) : i \in 1..Len(Accented)}
                 \cup {SubSeq(Upper, i, i) : i \in 1..26} |->
            IF \E i \in 1..26 : SubSeq(Upper, i, i) = c
            THEN SubSeq(Lower, CHOOSE i \in 1..26 : SubSeq(Upper, i, i) = c,
                               CHOOSE i \in 1..26 : SubSeq(Upper, i, i) = c)
            ELSE SubSeq(Bases,
                        CHOOSE i \in 1..Len(Accented) : SubSeq(Accented, i, i) = c,
                        CHOOSE i \in 1..Len(Accented) : SubSeq(Accented, i, i) = c)],
       alnum |-> {SubSeq(Alnum, i, i) : i \in 1..Len(Alnum)}]

\* s.normalize("NFD").replace(/[\u0300-\u036f]/g, "").toLowerCase()
RECURSIVE FoldedText(_)
FoldedText(s) ==
  IF s = "" THEN ""
  ELSE FoldedText(SubSeq(s, 1, Len(s) - 1))
         \o (IF SubSeq(s, Len(s), Len(s)) \in DOMAIN SearchChars.fold
             THEN SearchChars.fold[SubSeq(s, Len(s), Len(s))]
             ELSE SubSeq(s, Len(s), Len(s)))

\* t.replace(/[^a-z0-9]+/g, " ")
RECURSIVE ReplaceRuns(_)
ReplaceRuns(t) ==
  IF t = "" THEN ""
  ELSE IF SubSeq(t, Len(t), Len(t)) \in SearchChars.alnum
  THEN ReplaceRuns(SubSeq(t, 1, Len(t) - 1)) \o SubSeq(t, Len(t), Len(t))
  ELSE IF Len(t) > 1 /\ SubSeq(t, Len(t) - 1, Len(t) - 1) \notin SearchChars.alnum
  THEN ReplaceRuns(SubSeq(t, 1, Len(t) - 1))
  ELSE ReplaceRuns(SubSeq(t, 1, Len(t) - 1)) \o " "

\* normalizeForSearch without the final trim
normalizeForSearchUntrimmed(s) == ReplaceRuns(FoldedText(s))

\* normalizeForSearch(s); normalize("NFD") does not throw for a string
normalizeForSearch(s) == Trim(ReplaceRuns(FoldedText(s)))

\* makeSearchHaystack(tz, label): parts.filter(Boolean).join(" "), normalized
makeSearchHaystack(tz, label) ==
  normalizeForSearch(IF tz = "" THEN label
                     ELSE IF label = "" THEN tz
                     ELSE tz \o " " \o label)

\* type ZoneOption
ZoneOption(tz, group, label, offsetMin) ==
  [tz |-> tz, group |-> group, label |-> label, offsetMin |-> offsetMin,
   searchHay |-> makeSearchHaystack(tz, label)]

\* filterZoneOptions with the tokens taken from the trimmed query as typed
filterZoneOptionsAsTyped(opts, inputValue) ==
  LET q == Trim(inputValue)
      tokens ==
        {SubSeq(q, p[1], p[2]) :
           p \in {r \in (1..Len(q)) \X (1..Len(q)) :
                    /\ r[1] <= r[2]
                    /\ \A k \in r[1]..r[2] : SubSeq(q, k, k) # " "
                    /\ (r[1] = 1 \/ SubSeq(q, r[1] - 1, r[1] - 1) = " ")
                    /\ (r[2] = Len(q) \/ SubSeq(q, r[2] + 1, r[2] + 1) = " ")}}
  IN  IF q = "" THEN opts
      ELSE SelectSeq(opts, LAMBDA o :
             \A t \in tokens :
               \E i \in 1..(Len(o.searchHay) - Len(t) + 1) :
                 SubSeq(o.searchHay, i, i + Len(t) - 1) = t)

\* filterZoneOptions with tokens.some in place of tokens.every
filterZoneOptionsSome(opts, inputValue) ==
  LET norm == normalizeForSearch(Trim(inputValue))
      tokens ==
        {SubSeq(norm, p[1], p[2]) :
           p \in {r \in (1..Len(norm)) \X (1..Len(norm)) :
                    /\ r[1] <= r[2]
                    /\ \A k \in r[1]..r[2] : SubSeq(norm, k, k) # " "
                    /\ (r[1] = 1 \/ SubSeq(norm, r[1] - 1, r[1] - 1) = " ")
                    /\ (r[2] = Len(norm) \/ SubSeq(norm, r[2] + 1, r[2] + 1) = " ")}}
  IN  IF norm = "" THEN opts
      ELSE SelectSeq(opts, LAMBDA o :
             \E t \in tokens :
               \E i \in 1..(Len(o.searchHay) - Len(t) + 1) :
                 SubSeq(o.searchHay, i, i + Len(t) - 1) = t)

\* filterZoneOptions(opts, inputValue); the tokens are
\* norm.split(/\s+/).filter(Boolean)
filterZoneOptions(opts, inputValue) ==
  LET q == Trim(inputValue)
      norm == normalizeForSearch(q)
      NoSpace(i, j) == \A k \in i..j : SubSeq(norm, k, k) # " "
      tokens ==
        {SubSeq(norm, p[1], p[2]) :
           p \in {r \in (1..Len(norm)) \X (1..Len(norm)) :
                    /\ r[1] <= r[2]
                    /\ NoSpace(r[1], r[2])
                    /\ (r[1] = 1 \/ SubSeq(norm, r[1] - 1, r[1] - 1) = " ")
                    /\ (r[2] = Len(norm) \/ SubSeq(norm, r[2] + 1, r[2] + 1) = " ")}}
      Includes(hay, t) ==
        \E i \in 1..(Len(hay) - Len(t) + 1) : SubSeq(hay, i, i + Len(t) - 1) = t
  IN  IF q = "" THEN opts
      ELSE IF norm = "" THEN opts
      ELSE SelectSeq(opts, LAMBDA o : \A t \in tokens : Includes(o.searchHay, t))

\* labels.suggested
suggestedLabel == "Suggested"

\* the order of String.prototype.localeCompare on the characters of group
\* names and labels: spaces, punctuation and symbols, digits, letters; case
\* decides only between texts with the same letters
CollationOrder == " _-,:./()+0123456789abcdefghijklmnopqrstuvwxyz"

UpperLetters == "ABCDEFGHIJKLMNOPQRSTUVWXYZ"

IsUpper(c) == \E i \in 1..26 : SubSeq(UpperLetters, i, i) = c

\* the place of character c among all characters: the symbols stand between
\* the punctuation and the digits; an upper-case letter is at the place of its
\* lower-case letter, a symbol at its first place in SymbolUnits
CollationRank(c) ==
  LET SymbolUnits == IndicatorPlane \o "◍"
      PlaceOf(i) == IF i <= 10 THEN i ELSE i + Len(SymbolUnits)
  IN  IF IsUpper(c)
      THEN PlaceOf((Len(CollationOrder) - 26)
                     + (CHOOSE i \in 1..26 : SubSeq(UpperLetters, i, i) = c))
      ELSE IF \E i \in 1..Len(CollationOrder) : SubSeq(CollationOrder, i, i) = c
      THEN PlaceOf(CHOOSE i \in 1..Len(CollationOrder) :
                     SubSeq(CollationOrder, i, i) = c)
      ELSE 10 + (CHOOSE i \in 1..Len(SymbolUnits) :
                   /\ SubSeq(SymbolUnits, i, i) = c
                   /\ \A k \in 1..(i - 1) : SubSeq(SymbolUnits, k, k) # c)

\* the characters of a and b at index i have different ranks
RankDiffers(a, b, i) ==
  /\ SubSeq(a, i, i) # SubSeq(b, i, i)
  /\ CollationRank(SubSeq(a, i, i)) # CollationRank(SubSeq(b, i, i))

\* the first index at which a and b differ in rank, or 0
FirstRankDifference(a, b) ==
  IF \A i \in 1..Len(a) : i <= Len(b) => ~RankDiffers(a, b, i)
  THEN 0
  ELSE CHOOSE i \in 1..Len(a) :
         /\ i <= Len(b)
         /\ RankDiffers(a, b, i)
         /\ \A k \in 1..(i - 1) : ~RankDiffers(a, b, k)

FirstCaseDifference(a, b) ==
  IF \A i \in 1..Len(a) : SubSeq(a, i, i) = SubSeq(b, i, i) THEN 0
  ELSE CHOOSE i \in 1..Len(a) :
         /\ SubSeq(a, i, i) # SubSeq(b, i, i)
         /\ \A k \in 1..(i - 1) : SubSeq(a, k, k) = SubSeq(b, k, k)

\* a and b agree in rank as far as both go, or differ first at index d
CompareAt(a, b, d) ==
  IF d # 0
  THEN (IF CollationRank(SubSeq(a, d, d)) < CollationRank(SubSeq(b, d, d))
        THEN -1 ELSE 1)
  ELSE IF Len(a) # Len(b) THEN (IF Len(a) < Len(b) THEN -1 ELSE 1)
  ELSE IF a = b THEN 0
  ELSE IF IsUpper(SubSeq(b, FirstCaseDifference(a, b), FirstCaseDifference(a, b)))
  THEN -1 ELSE 1

\* a.localeCompare(b): negative, zero or positive
localeCompare(a, b) == CompareAt(a, b, FirstRankDifference(a, b))

\* where Array.prototype.sort, a stable sort, puts the element at index i;
\* cmp[j][i] is what the comparator returns for the elements at j and i
SortPosition(cmp, i) ==
  Cardinality({j \in DOMAIN cmp :
                 \/ cmp[j][i] < 0
                 \/ cmp[j][i] = 0 /\ j < i}) + 1

\* the elements of seq, each at its position
Placed(seq, positions) ==
  [k \in 1..Len(seq) |-> seq[CHOOSE i \in 1..Len(seq) : positions[i] = k]]

\* seq.sort(comparator); the comparisons and the positions are computed once
StableSort(seq, cmp) ==
  CHOOSE sorted \in UNION {{Placed(seq, p) : p \in {[i \in DOMAIN c |-> SortPosition(c, i)]}} : c \in {cmp}} :
    TRUE

priorityOf(tz, siteTimeZone, browserTimeZone) ==
  IF tz = "UTC" THEN 0
  ELSE IF ~Falsy(siteTimeZone) /\ tz = siteTimeZone THEN 1
  ELSE IF tz = browserTimeZone THEN 2
  ELSE 3

\* suggestedTimeZones.map(...)
SuggestedOptions(suggestedTimeZones, at, browserTimeZone, siteTimeZone) ==
  [i \in 1..Len(suggestedTimeZones) |->
     ZoneOption(suggestedTimeZones[i], suggestedLabel,
                makeZoneLabel(suggestedTimeZones[i], "suggested", at,
                              browserTimeZone, siteTimeZone),
                ZoneOffset(suggestedTimeZones[i], at))]

\* timeZones.map(...)
RegularOptions(timeZones, at, browserTimeZone, siteTimeZone) ==
  [i \in 1..Len(timeZones) |->
     ZoneOption(timeZones[i], groupForTimeZone(timeZones[i]),
                makeZoneLabel(timeZones[i], "regular", at,
                              browserTimeZone, siteTimeZone),
                ZoneOffset(timeZones[i], at))]

\* a comparator that stops at the offset
CompareRegularNoLabel(a, b) ==
  IF a.group # b.group THEN localeCompare(a.group, b.group)
  ELSE a.offsetMin - b.offsetMin

\* the comparator of regular.sort
CompareRegular(a, b) ==
  IF a.group # b.group THEN localeCompare(a.group, b.group)
  ELSE IF a.offsetMin - b.offsetMin # 0 THEN a.offsetMin - b.offsetMin
  ELSE localeCompare(a.label, b.label)

\* the suggested options left in input order
SortSuggestedSkipped(suggested, siteTimeZone, browserTimeZone) == suggested

\* (a, b) => priorityOf(a.tz) - priorityOf(b.tz), on every pair
SuggestedComparisons(suggested, siteTimeZone, browserTimeZone) ==
  [j \in 1..Len(suggested) |->
     [i \in 1..Len(suggested) |->
        priorityOf(suggested[j].tz, siteTimeZone, browserTimeZone)
          - priorityOf(suggested[i].tz, siteTimeZone, browserTimeZone)]]

\* suggested.sort((a, b) => priorityOf(a.tz) - priorityOf(b.tz))
SortSuggested(suggested, siteTimeZone, browserTimeZone) ==
  CHOOSE sorted \in
      {StableSort(v, SuggestedComparisons(v, siteTimeZone, browserTimeZone)) :
         v \in {suggested}} :
    TRUE

\* the comparator of regular.sort, on every pair
RegularComparisons(regular) ==
  [j \in 1..Len(regular) |->
     [i \in 1..Len(regular) |-> CompareRegular(regular[j], regular[i])]]

\* regular.sort(...)
SortRegular(regular) ==
  CHOOSE sorted \in {StableSort(v, RegularComparisons(v)) : v \in {regular}} : TRUE

\* buildZoneOptions(params) with now = at
buildZoneOptions(timeZones, at, suggestedTimeZones, browserTimeZone, siteTimeZone) ==
  SortSuggested(SuggestedOptions(suggestedTimeZones, at, browserTimeZone,
                                 siteTimeZone),
                siteTimeZone, browserTimeZone)
    \o SortRegular(RegularOptions(timeZones, at, browserTimeZone, siteTimeZone))

(***************************************************************************)
(* The field editors                                                       *)
(***************************************************************************)

VARIABLES
  mode,            \* "string": the IXDTF text editor; "json": the JSON editor
  disabled,        \* ctx.disabled
  browserTimeZone, \* Intl.DateTimeFormat().resolvedOptions().timeZone
  now,             \* index into NowSamples: the current instant
  fieldValue,      \* ctx.formValues[fieldPath]
  zonedDateTime,   \* the component's state
  output,          \* the memo ixdtfString / datoPayload of the last render
  pc,              \* "unmounted", "loaded" (mounted and rendered, the first
                   \* persist effect pending), "idle", "crashed" (the
                   \* first render threw)
  userPreferredTimeZone, \* ctx.site.attributes.timezone
  intl,            \* what Intl.supportedValuesOf is: "ok", "throws", "missing"
  params,          \* the arguments of the last call of buildZoneOptions
  options,         \* the memo options
  renderedAt,      \* index into NowSamples: the instant of the last render
  call,            \* the last call of a utility: its name and its argument
  result           \* what that call returned

optVars == <<userPreferredTimeZone, intl, params, options, renderedAt>>

vars ==
  <<mode, disabled, browserTimeZone, now, fieldValue, zonedDateTime, output, pc,
    userPreferredTimeZone, intl, params, options, renderedAt, call, result>>

nowTs == NowSamples[now]

\* useMemo(() => formatToIxdtf(zonedDateTime)) and
\* useMemo(() => JSON.stringify(buildDatoOutput(zonedDateTime), null, 2))
Render(m, value, ts) ==
  IF m = "string" THEN TextOrNull(formatToIxdtf(value, ts))
  ELSE JSONstringify(JObject(buildDatoOutput(value, ts)))

Init ==
  /\ mode \in {"string", "json"}
  /\ disabled \in BOOLEAN
  /\ browserTimeZone \in BrowserZones
  /\ now \in 1..Len(NowSamples)
  /\ fieldValue \in (IF mode = "string" THEN StoredStrings ELSE StoredJson)
  /\ zonedDateTime = EmptyZonedValue
  /\ output = NullField
  /\ pc = "unmounted"
  /\ userPreferredTimeZone = "Europe/Rome"
  /\ intl = "ok"
  /\ params = << >>
  /\ options = << >>
  /\ renderedAt = 0
  /\ call = << >>
  /\ result = << >>

\* the state after useState(initial) and the first render
Mounted(initial) ==
  /\ zonedDateTime' = initial
  /\ output' = Render(mode, initial, nowTs)
  /\ pc' = "loaded"

\* the useState initializer of the IXDTF editor, and the first render
MountString ==
  /\ pc = "unmounted" /\ mode = "string"
  /\ Mounted(parseIxdtf(IF fieldValue.kind = "null" THEN Null ELSE fieldValue.text))
  /\ UNCHANGED <<mode, disabled, browserTimeZone, now, fieldValue>>
  /\ UNCHANGED optVars
  /\ UNCHANGED <<call, result>>

\* useState(() => parseDatoValue(parsed)) once JSON.parse has returned; a
\* SyntaxError of JSON.parse is not caught
MountParsed(parsedField) ==
  IF parsedField.ok
  THEN Mounted(parseDatoValue(parsedField.value))
  ELSE /\ pc' = "crashed"
       /\ UNCHANGED <<zonedDateTime, output>>

\* the useState initializer of the JSON editor, and the first render
MountJson ==
  /\ pc = "unmounted" /\ mode = "json"
  /\ MountParsed(JSONparse(fieldValue))
  /\ UNCHANGED <<mode, disabled, browserTimeZone, now, fieldValue>>
  /\ UNCHANGED optVars
  /\ UNCHANGED <<call, result>>

\* useEffect(() => setFieldValue(fieldPath, ...)) after the first render
Persist ==
  /\ pc = "loaded"
  /\ fieldValue' = output
  /\ pc' = "idle"
  /\ UNCHANGED <<mode, disabled, browserTimeZone, now, zonedDateTime, output>>
  /\ UNCHANGED optVars
  /\ UNCHANGED <<call, result>>

\* the zone the DateTimePicker works in: timezone={timeZone ?? "system"}
PickerZone ==
  IF zonedDateTime.timeZone = Null THEN browserTimeZone
  ELSE zonedDateTime.timeZone

\* what the picker hands to onChange: an invalid DateTime (a partly typed
\* date) or a DateTime of the picker's zone
PickerValues ==
  {InvalidDateTime} \cup {FromISO(T, PickerZone, nowTs) : T \in WallTimes}

\* Commit with a persist effect that does not run again after an edit
CommitWithoutPersist(value, rendered) ==
  /\ zonedDateTime' = value
  /\ output' = rendered
  /\ UNCHANGED <<mode, disabled, browserTimeZone, now, pc, fieldValue>>
  /\ UNCHANGED optVars
  /\ UNCHANGED <<call, result>>

\* the render and the persist effect that follow a state change
Commit(value, rendered) ==
  /\ zonedDateTime' = value
  /\ output' = rendered
  /\ fieldValue' = rendered
  /\ UNCHANGED <<mode, disabled, browserTimeZone, now, pc>>
  /\ UNCHANGED optVars
  /\ UNCHANGED <<call, result>>

\* setZonedDateTime(...) in an event handler: the state changes, the
\* component renders again and the persist effect runs before the next event
SetState(value) == Commit(value, Render(mode, value, nowTs))

\* handleDateChange(newVal) with a DateTime
handleDateChange(newVal) ==
  /\ pc = "idle" /\ ~disabled
  /\ SetState([zonedDateTime EXCEPT !.dateTime = ToLocalFormat(newVal)])

\* handleDateChange(null): the date is cleared
handleDateClear ==
  /\ pc = "idle" /\ ~disabled
  /\ SetState([zonedDateTime EXCEPT !.dateTime = Null])

\* a zone picker with disabled={disabled} in both editors
isTimeZonePickerDisabledByProp == disabled

\* const isTimeZonePickerDisabled = disabled || !zonedDateTime?.dateTime?.length
\* (JSON editor); the IXDTF editor's zone picker has disabled={disabled}
isTimeZonePickerDisabled ==
  IF mode = "json" THEN disabled \/ Falsy(zonedDateTime.dateTime)
  ELSE disabled

\* the value prop of the JSON editor's Autocomplete over the options opts:
\* << >> for undefined, otherwise the one option shown as selected,
\* options.find((o) => o.tz === (zonedDateTime.timeZone ?? "")) ?? options[0]
AutocompleteValue(opts) ==
  LET wanted == IF zonedDateTime.timeZone = Null THEN "" ELSE zonedDateTime.timeZone
      found == {i \in 1..Len(opts) : opts[i].tz = wanted}
  IN  IF isTimeZonePickerDisabled THEN << >>
      ELSE IF found # {}
      THEN << opts[CHOOSE i \in found : \A k \in found : i <= k] >>
      ELSE IF opts = << >> THEN << >>
      ELSE << opts[1] >>

\* handleTzChange(_, newOption.tz)
handleTzChange(newValue) ==
  /\ pc = "idle" /\ ~isTimeZonePickerDisabled
  /\ SetState([zonedDateTime EXCEPT !.timeZone = newValue])

\* handleTzChange(_, null): only the IXDTF editor's picker can be cleared
\* (the JSON editor's has disableClearable)
handleTzClear ==
  /\ pc = "idle" /\ ~isTimeZonePickerDisabled /\ mode = "string"
  /\ SetState([zonedDateTime EXCEPT !.timeZone = Null])

\* time passes
Tick ==
  /\ now < Len(NowSamples)
  /\ now' = now + 1
  /\ UNCHANGED <<mode, disabled, browserTimeZone, fieldValue, zonedDateTime,
                 output, pc>>
  /\ UNCHANGED optVars
  /\ UNCHANGED <<call, result>>

Next ==
  \/ MountString
  \/ MountJson
  \/ Persist
  \/ \E newVal \in PickerValues : handleDateChange(newVal)
  \/ handleDateClear
  \/ \E tz \in ZoneChoices \cup {browserTimeZone} : handleTzChange(tz)
  \/ handleTzClear
  \/ Tick

Spec == Init /\ [][Next]_vars

(***************************************************************************)
(* The option list of a mounted editor                                     *)
(***************************************************************************)

SiteZones == {"UTC", "Europe/Rome", "America/Chicago", "Asia/Kolkata"}

IntlKinds == {"ok", "throws", "missing"}

\* arr.filter((v) => !!v)
FilterTruthy(arr) == SelectSeq(arr, LAMBDA v : ~Falsy(v))

\* Array.from(new Set(arr)): the first occurrence of each element, in order
RECURSIVE ArrayFromSet(_)
ArrayFromSet(arr) ==
  IF arr = << >> THEN << >>
  ELSE LET front == ArrayFromSet(SubSeq(arr, 1, Len(arr) - 1))
       IN  IF \E i \in 1..Len(front) : front[i] = arr[Len(arr)] THEN front
           ELSE Append(front, arr[Len(arr)])

\* suggestedTimeZones of the IXDTF editor (m = "string") and of the JSON
\* editor (m = "json")
suggestedTimeZonesOf(m, site, browser) ==
  IF m = "string" THEN ArrayFromSet(FilterTruthy(<<"UTC", site, browser>>))
  ELSE <<"UTC", site, browser>>

BuildParams(timeZones, at, suggestedTimeZones, browser, site) ==
  [timeZones |-> timeZones, now |-> at, suggestedTimeZones |-> suggestedTimeZones,
   browserTimeZone |-> browser, siteTimeZone |-> site]

\* useMemo(() => buildZoneOptions(p)) when it computes
OptionsMemo(p) ==
  /\ params' = p
  /\ options' = buildZoneOptions(p.timeZones, p.now, p.suggestedTimeZones,
                                 p.browserTimeZone, p.siteTimeZone)

OptionsInit ==
  /\ mode \in {"string", "json"}
  /\ disabled = FALSE
  /\ browserTimeZone \in BrowserZones
  /\ now \in 1..Len(NowSamples)
  /\ fieldValue = NullField
  /\ zonedDateTime = EmptyZonedValue
  /\ output = NullField
  /\ pc = "unmounted"
  /\ userPreferredTimeZone \in SiteZones
  /\ intl \in IntlKinds
  /\ params = << >>
  /\ options = << >>
  /\ renderedAt = 0
  /\ call = << >>
  /\ result = << >>

\* the first render: timeZones, now and options are computed
MountOptions ==
  /\ pc = "unmounted"
  /\ OptionsMemo(BuildParams(getSupportedTimeZones(intl, RuntimeTimeZones), nowTs,
                             suggestedTimeZonesOf(mode, userPreferredTimeZone,
                                                  browserTimeZone),
                             browserTimeZone, userPreferredTimeZone))
  /\ renderedAt' = now
  /\ pc' = "idle"
  /\ UNCHANGED <<mode, disabled, browserTimeZone, now, fieldValue, zonedDateTime,
                 output, userPreferredTimeZone, intl, call, result>>

\* a later render: timeZones and now are memoised with no dependencies; the
\* JSON editor's suggestedTimeZones is a new array, so its options memo
\* computes again, from the memoised values
RenderOptions ==
  /\ pc = "idle"
  /\ IF mode = "json"
     THEN OptionsMemo([params EXCEPT !.suggestedTimeZones =
                         suggestedTimeZonesOf(mode, userPreferredTimeZone,
                                              browserTimeZone)])
     ELSE UNCHANGED <<params, options>>
  /\ renderedAt' = now
  /\ UNCHANGED <<mode, disabled, browserTimeZone, now, fieldValue, zonedDateTime,
                 output, pc, userPreferredTimeZone, intl, call, result>>

\* the user types inputValue into the zone picker: filterOptions gives the
\* options the list shows
Search ==
  \E inputValue \in {"", "   ", "+", "rome", "Rome", "  rome ", "utc+2", "utc-2",
                      "utc 2", "UTC+2", "asia tokyo", "europe rome", "são paulo",
                      "time", "e"} :
    /\ pc = "idle" /\ call = << >>
    /\ call' = [fn |-> "filterZoneOptions", arg |-> inputValue]
    /\ result' = filterZoneOptions(options, inputValue)
    /\ UNCHANGED <<mode, disabled, browserTimeZone, now, fieldValue, zonedDateTime,
                   output, pc>>
    /\ UNCHANGED optVars

OptionsNext ==
  \/ MountOptions
  \/ RenderOptions
  \/ Search
  \/ Tick

OptionsSpec == OptionsInit /\ [][OptionsNext]_vars

(***************************************************************************)
(* buildZoneOptions and the utilities on their own                         *)
(***************************************************************************)

MaxSuggested == 3

SuggestedPool == {"UTC", "Europe/Rome", "America/Chicago"}

\* suggestedTimeZones: string[]
SuggestedLists == UNION {[1..n -> SuggestedPool] : n \in 0..MaxSuggested}

\* what Intl.supportedValuesOf("timeZone") may return
TimeZoneLists ==
  { RuntimeTimeZones,
    << "Europe/Rome", "Etc/UTC", "Asia/Kolkata", "America/Phoenix",
       "America/Los_Angeles", "America/Chicago" >>,
    << "UTC", "Europe/Rome", "Etc/UTC", "America/Phoenix", "America/Los_Angeles" >> }

\* siteTimeZone?: string | null
BuilderSites == {Null, "Europe/Rome", "America/Chicago"}

BuilderInit ==
  /\ mode = "json"
  /\ disabled = FALSE
  /\ browserTimeZone = "UTC"
  /\ now = 1
  /\ fieldValue = NullField
  /\ zonedDateTime = EmptyZonedValue
  /\ output = NullField
  /\ pc = "unmounted"
  /\ userPreferredTimeZone = "UTC"
  /\ intl = "ok"
  /\ params = << >>
  /\ options = << >>
  /\ renderedAt = 0
  /\ call = << >>
  /\ result = << >>

\* one call buildZoneOptions({ timeZones: getSupportedTimeZones(), now, ... })
\* the runtimes: what Intl.supportedValuesOf is, and what it returns or
\* would return
Runtimes ==
  {<<"ok", e>> : e \in TimeZoneLists}
    \cup {<<"throws", RuntimeTimeZones>>, <<"missing", RuntimeTimeZones>>}

CallBuild ==
  \E rt \in Runtimes, n \in 1..2, suggested \in SuggestedLists,
     browser \in {"UTC", "America/Chicago"}, site \in BuilderSites :
    /\ params = << >> /\ call = << >>
    /\ intl' = rt[1]
    /\ OptionsMemo(BuildParams(getSupportedTimeZones(rt[1], rt[2]), NowSamples[n],
                               suggested, browser, site))
    /\ UNCHANGED <<mode, disabled, browserTimeZone, now, fieldValue, zonedDateTime,
                   output, pc, userPreferredTimeZone, renderedAt, call, result>>

MaxOffsetMinutes == 840

\* one call normalizeForSearch(s), s made of three pieces
CallNormalizeForSearch ==
  \E a, b, c \in {"", " ", "  ", "-", "/", "+", "_x", "São", "é", "Ø", "UTC+2",
                   "A1"} :
    /\ params = << >> /\ call = << >>
    /\ call' = [fn |-> "normalizeForSearch", arg |-> a \o b \o c]
    /\ result' = normalizeForSearch(a \o b \o c)
    /\ UNCHANGED <<mode, disabled, browserTimeZone, now, fieldValue, zonedDateTime,
                   output, pc>>
    /\ UNCHANGED optVars

\* one call utcOffsetStringForZone(timeZone, at) for a zone whose offset at
\* the instant is offsetMin
CallOffsetString ==
  \E offsetMin \in (-MaxOffsetMinutes)..MaxOffsetMinutes :
    /\ params = << >> /\ call = << >>
    /\ call' = [fn |-> "utcOffsetStringForZone", arg |-> offsetMin]
    /\ result' = OffsetString(offsetMin)
    /\ UNCHANGED <<mode, disabled, browserTimeZone, now, fieldValue, zonedDateTime,
                   output, pc>>
    /\ UNCHANGED optVars

\* one call groupForTimeZone(tz)
CallGroupForTimeZone ==
  \E tz \in {"UTC", "GMT", "Etc/UTC", "Etc/GMT+5", "Etc/GMT-14", "Europe/Rome",
              "Europe/London", "America/Chicago", "America/Argentina/Buenos_Aires",
              "Asia/Kolkata", "Pacific/Auckland", "EST", "Etc", "utc", "", "/Rome"} :
    /\ params = << >> /\ call = << >>
    /\ call' = [fn |-> "groupForTimeZone", arg |-> tz]
    /\ result' = groupForTimeZone(tz)
    /\ UNCHANGED <<mode, disabled, browserTimeZone, now, fieldValue, zonedDateTime,
                   output, pc>>
    /\ UNCHANGED optVars

\* one call toFlagEmoji(countryCode)
CallToFlagEmoji ==
  \E countryCode \in {"", "U", "USA", "ITAL", "US", "us", "Us", "IT", "it", "IN",
                       "12", "U1", "--", "  ", "u$"} :
    /\ params = << >> /\ call = << >>
    /\ call' = [fn |-> "toFlagEmoji", arg |-> countryCode]
    /\ result' = toFlagEmoji(countryCode)
    /\ UNCHANGED <<mode, disabled, browserTimeZone, now, fieldValue, zonedDateTime,
                   output, pc>>
    /\ UNCHANGED optVars

\* one call buildDatoOutput({ dateTime, timeZone }) for a wall time of every
\* hour of the day
CallBuildDatoOutput ==
  \E d \in {"2025-03-09", "2025-07-15"}, h \in 0..23, m \in {0, 5, 59},
     sec \in {0, 57}, timeZone \in {"UTC", "America/Chicago", "Asia/Kolkata"} :
    /\ params = << >> /\ call = << >>
    /\ call' = [fn |-> "buildDatoOutput",
                arg |-> ZonedValue(d \o "T" \o Pad2(h) \o ":" \o Pad2(m) \o ":"
                                     \o Pad2(sec),
                                   timeZone)]
    /\ result' = buildDatoOutput(ZonedValue(d \o "T" \o Pad2(h) \o ":" \o Pad2(m)
                                              \o ":" \o Pad2(sec),
                                            timeZone),
                                 nowTs)
    /\ UNCHANGED <<mode, disabled, browserTimeZone, now, fieldValue, zonedDateTime,
                   output, pc>>
    /\ UNCHANGED optVars

BuilderNext ==
  \/ CallBuild
  \/ CallNormalizeForSearch
  \/ CallOffsetString
  \/ CallGroupForTimeZone
  \/ CallToFlagEmoji
  \/ CallBuildDatoOutput

BuilderSpec == BuilderInit /\ [][BuilderNext]_vars

(***************************************************************************)
(* Properties                                                              *)
(***************************************************************************)

\* the component is mounted: the state holds a ZonedValue and a rendered output
IsMounted == pc \in {"loaded", "idle"}

\* T is YYYY-MM-DDTHH:mm:ss with a date of the calendar and a time of day
IsWallTime(T) ==
  /\ IsLocalIso(T)
  /\ HasValidUnits(IsoFields(T))
  /\ IsoFields(T).hour <= 23

\* the offsets o of zone Z for which the instant "T at offset o" has offset o
\* under Z's rules: none in a DST gap, two in a DST overlap, else one
OffsetsAt(T, Z) ==
  {o \in ZoneOffsets(Z) : ZoneOffset(Z, ObjToLocalTS(IsoFields(T)) - o * 60) = o}

\* the state holds a wall time and a zone of the zone database
HoldsWallTime ==
  /\ IsMounted
  /\ zonedDateTime.dateTime # Null
  /\ zonedDateTime.timeZone # Null
  /\ IsValidZone(zonedDateTime.timeZone)
  /\ IsWallTime(zonedDateTime.dateTime)

HeldOffsets == OffsetsAt(zonedDateTime.dateTime, zonedDateTime.timeZone)

\* <<T, Z, o, T + offset + [Z]>> for every sample wall time T, zone Z and
\* offset o that Z's rules give at T
RuleIxdtf ==
  UNION {{<<p[1], p[2], o,
            p[1] \o FormatOffsetShort(o) \o "[" \o p[2] \o "]">> :
            o \in OffsetsAt(p[1], p[2])} : p \in WallTimes \X ZoneChoices}

\* C1: round trip.  For every zone Z of the zone database and every wall time
\* T that Z's rules resolve to exactly one offset (no gap, no overlap), parsing
\* what the codec writes for {T, Z} gives {T, Z} back, for the string codec
\* (parseIxdtf after formatToIxdtf) and for the JSON codec (parseDatoValue
\* after buildDatoOutput), whenever the value is written.
C1_RoundTrip ==
  (HoldsWallTime /\ Cardinality(HeldOffsets) = 1)
    => \A n \in 1..Len(NowSamples) :
         /\ parseIxdtf(formatToIxdtf(zonedDateTime, NowSamples[n])) = zonedDateTime
         /\ parseDatoValue(JObject(buildDatoOutput(zonedDateTime, NowSamples[n])))
              = zonedDateTime

\* the editor holds 2025-07-15T12:00:00 in America/Chicago, has written it,
\* and what it wrote parses back to what it holds
C1_Witness ==
  /\ pc = "idle"
  /\ zonedDateTime = ZonedValue("2025-07-15T12:00:00", "America/Chicago")
  /\ fieldValue = RawText("2025-07-15T12:00:00-05:00[America/Chicago]")
  /\ parseIxdtf(fieldValue.text) = zonedDateTime

\* C2: DST gap.  For a wall time T that zone Z's rules give no offset (it
\* falls in a spring-forward gap), formatToIxdtf returns null and
\* buildDatoOutput returns the empty object.
C2_GapYieldsNoValue ==
  (HoldsWallTime /\ HeldOffsets = {})
    => \A n \in 1..Len(NowSamples) :
         /\ formatToIxdtf(zonedDateTime, NowSamples[n]) = Null
         /\ buildDatoOutput(zonedDateTime, NowSamples[n]) = << >>

\* the offset a written IXDTF text carries, "Z" read as +00:00
EmittedOffset(text) ==
  IF SubSeq(text, 20, 20) = "Z" THEN "+00:00" ELSE SubSeq(text, 20, 25)

\* C3: DST offset accuracy.  The offset the codec writes for {T, Z} is an
\* offset Z's rules give at wall time T, and the output is the same at
\* whatever instant it is written; America/Chicago gets -06:00 at
\* 2025-01-15T12:00:00 and -05:00 at 2025-07-15T12:00:00.
C3_OffsetFromRulesAtT ==
  HoldsWallTime
    => \A n \in 1..Len(NowSamples) :
         /\ formatToIxdtf(zonedDateTime, NowSamples[n]) # Null
              => EmittedOffset(formatToIxdtf(zonedDateTime, NowSamples[n]))
                   \in {FormatOffsetShort(o) : o \in HeldOffsets}
         /\ buildDatoOutput(zonedDateTime, NowSamples[n]) # << >>
              => buildDatoOutput(zonedDateTime, NowSamples[n])["offset"].val
                   \in {FormatOffsetShort(o) : o \in HeldOffsets}
         /\ formatToIxdtf(zonedDateTime, NowSamples[n])
              = formatToIxdtf(zonedDateTime, NowSamples[1])
         /\ buildDatoOutput(zonedDateTime, NowSamples[n])
              = buildDatoOutput(zonedDateTime, NowSamples[1])
         /\ zonedDateTime = ZonedValue("2025-01-15T12:00:00", "America/Chicago")
              => formatToIxdtf(zonedDateTime, NowSamples[n])
                   = "2025-01-15T12:00:00-06:00[America/Chicago]"
         /\ zonedDateTime = ZonedValue("2025-07-15T12:00:00", "America/Chicago")
              => formatToIxdtf(zonedDateTime, NowSamples[n])
                   = "2025-07-15T12:00:00-05:00[America/Chicago]"

\* C4: for every stored text s = T + offset + [Z], the offset being one Z's
\* rules give at T, the IXDTF editor loads {T, Z} from it and the text it
\* renders from that state is s, character for character.
C4_FormatReproducesStored ==
  (mode = "string" /\ pc = "loaded")
    => \A q \in RuleIxdtf :
         fieldValue = RawText(q[4])
           => /\ zonedDateTime = ZonedValue(q[1], q[2])
              /\ output = fieldValue

\* the same offset, wall time and zone in a text written back for the stored
\* text q[4] ("Z" is the offset +00:00)
CarriesText(after, q) ==
  /\ after.kind = "raw"
  /\ \/ after.text = q[4]
     \/ q[3] = 0 /\ after.text = q[1] \o "Z[" \o q[2] \o "]"

\* the same offset, wall time and zone in a payload written back for the
\* stored payload before
CarriesPayload(after, before) ==
  /\ after.kind = "json"
  /\ DOMAIN after.json.obj = DOMAIN before.json.obj
  /\ \A k \in {"offset", "date", "time_24hr", "zone"} :
       after.json.obj[k] = before.json.obj[k]

\* C5: the original offset is never coerced.  When the editor mounts on a
\* stored value of wall time T, offset o and zone Z (o an offset Z's rules
\* give at T; for the JSON editor a payload the plugin wrote) and its persist
\* step runs with no edit, the value written back carries T, o and Z.
C5_OffsetRemembered ==
  [][(pc = "loaded" /\ pc' = "idle")
       => /\ mode = "string"
               => \A q \in RuleIxdtf :
                    fieldValue = RawText(q[4]) => CarriesText(fieldValue', q)
          /\ (mode = "json" /\ fieldValue.kind = "json"
                /\ fieldValue.json \in WrittenPayloads
                /\ fieldValue.json.obj # << >>)
               => CarriesPayload(fieldValue', fieldValue)]_vars

\* stored values that hold no value: null, empty or malformed text, JSON of
\* an unexpected shape
Unparseable ==
  {NullField, RawText(""), RawText("   "), RawText("garbage"), RawText("null"),
   RawText("42"), JSONstringify(JNull), JSONstringify(JArray),
   JSONstringify(JNumber("42")), JSONstringify(JObject(<< >>)),
   JSONstringify(JObject("zonedDateTime" :> JNumber("42")))}

\* C6: loading is never an error.  For every stored value the load step
\* finishes without throwing, and for a stored value that holds no value it
\* yields a ZonedValue with a null field.
C6_LoadNeverThrows ==
  /\ pc # "crashed"
  /\ (pc = "loaded" /\ fieldValue \in Unparseable)
       => (zonedDateTime.dateTime = Null \/ zonedDateTime.timeZone = Null)

\* the three stored shapes of 1996-12-19T16:39:57 in America/Los_Angeles and
\* Europe/Rome
BareIxdtf == "1996-12-19T16:39:57-08:00[America/Los_Angeles]"

LegacyDateTime ==
  JObject(("zone" :> JString("Europe/Rome")) @@ ("date" :> JString("1996-12-19"))
            @@ ("time_24hr" :> JString("16:39:57")))

\* C7: the JSON editor's parse accepts the three stored shapes: a bare IXDTF
\* string loads as parseIxdtf reads it, a payload the plugin wrote loads as
\* its wall time and zone, a legacy {zone, date, time_24hr} object loads as
\* its date, time and zone.
C7_ParseAcceptsThreeShapes ==
  mode = "json"
    => /\ fieldValue \in {RawText(BareIxdtf), JSONstringify(JString(BareIxdtf))}
            => /\ pc \in {"unmounted", "loaded"}
               /\ pc = "loaded" => zonedDateTime = parseIxdtf(BareIxdtf)
       /\ (pc = "loaded" /\ fieldValue = JSONstringify(LegacyDateTime))
            => zonedDateTime = ZonedValue("1996-12-19T16:39:57", "Europe/Rome")
       /\ (pc = "loaded" /\ fieldValue.kind = "json"
             /\ fieldValue.json \in WrittenPayloads
             /\ fieldValue.json.obj # << >>)
            => zonedDateTime
                 = ZonedValue(fieldValue.json.obj["date"].val \o "T"
                                \o fieldValue.json.obj["time_24hr"].val,
                              fieldValue.json.obj["zone"].val)

\* "no match" of an extraction strategy
NoMatch == ZonedValue("<no match>", "<no match>")

\* strategy 1: zone + dateTime with offset; the offset is stripped
Strategy1(v) ==
  IF Falsy(StringOrNull(v, "zone")) \/ Falsy(StringOrNull(v, "dateTime"))
  THEN NoMatch
  ELSE IF LocalMatch(StringOrNull(v, "dateTime")) = Null THEN NoMatch
  ELSE ZonedValue(ensureSeconds(LocalMatch(StringOrNull(v, "dateTime"))),
                  StringOrNull(v, "zone"))

\* the time of strategy 2: time_24hr when it holds one, else the legacy time
PreferredTime(v) ==
  IF ~Falsy(StringOrNull(v, "time_24hr")) THEN StringOrNull(v, "time_24hr")
  ELSE StringOrNull(v, "time")

\* strategy 2: zone + date + time
Strategy2(v) ==
  IF Falsy(StringOrNull(v, "zone")) \/ Falsy(StringOrNull(v, "date"))
       \/ Falsy(PreferredTime(v))
  THEN NoMatch
  ELSE ZonedValue(ensureSeconds(StringOrNull(v, "date") \o "T" \o PreferredTime(v)),
                  StringOrNull(v, "zone"))

\* strategy 3: the embedded IXDTF string
Strategy3(v) ==
  IF Member(v, "zonedDateTime").type # "string" THEN NoMatch
  ELSE IF parseIxdtf(Member(v, "zonedDateTime").val) = EmptyZonedValue THEN NoMatch
  ELSE parseIxdtf(Member(v, "zonedDateTime").val)

\* the result of the first strategy that matches, else the empty ZonedValue
FirstMatch(v) ==
  IF Strategy1(v) # NoMatch THEN Strategy1(v)
  ELSE IF Strategy2(v) # NoMatch THEN Strategy2(v)
  ELSE IF Strategy3(v) # NoMatch THEN Strategy3(v)
  ELSE EmptyZonedValue

\* C8: the structured parse returns the result of the first strategy, in the
\* order (1) zone + dateTime, (2) zone + date + time with time_24hr preferred
\* over time, (3) the embedded IXDTF string, (4) empty, that extracts a
\* value; a later strategy is used exactly when every earlier one has no
\* match.  {zone: Europe/Rome, date: 1996-12-19, time_24hr: 16:39:57} gives
\* {1996-12-19T16:39:57, Europe/Rome}.
C8_FirstMatchingStrategy ==
  (mode = "json" /\ pc = "loaded" /\ fieldValue.kind = "json"
     /\ fieldValue.json.type = "object")
    => /\ zonedDateTime = FirstMatch(fieldValue.json)
       /\ fieldValue.json = LegacyDateTime
            => zonedDateTime = ZonedValue("1996-12-19T16:39:57", "Europe/Rome")

\* the opening brackets of s that the closing bracket at the end of s closes
\* with a content that is not empty and holds no "]"
OpeningBrackets(s) ==
  {i \in 1..(Len(s) - 2) :
     /\ SubSeq(s, i, i) = "["
     /\ \A k \in (i + 1)..(Len(s) - 1) : SubSeq(s, k, k) # "]"}

\* the content of the trailing bracket pair of the trimmed text s, from the
\* first bracket that opens it; Null when s does not end in such a pair
TrailingBracket(s) ==
  IF Len(s) < 3 \/ SubSeq(s, Len(s), Len(s)) # "]" \/ OpeningBrackets(s) = {}
  THEN Null
  ELSE SubSeq(s,
         (CHOOSE i \in OpeningBrackets(s) : \A k \in OpeningBrackets(s) : i <= k) + 1,
         Len(s) - 1)

\* the leading YYYY-MM-DDTHH:mm[:ss] of the trimmed text s with :00 for
\* missing seconds; Null when s does not start so
LeadingDateTime(s) ==
  IF ~(/\ Len(s) >= 16
       /\ \A i \in {1, 2, 3, 4, 6, 7, 9, 10, 12, 13, 15, 16} :
            SubSeq(s, i, i) \in DigitSet
       /\ SubSeq(s, 5, 5) = "-" /\ SubSeq(s, 8, 8) = "-"
       /\ SubSeq(s, 11, 11) = "T" /\ SubSeq(s, 14, 14) = ":")
  THEN Null
  ELSE IF Len(s) >= 19 /\ SubSeq(s, 17, 17) = ":"
          /\ SubSeq(s, 18, 18) \in DigitSet /\ SubSeq(s, 19, 19) \in DigitSet
  THEN SubSeq(s, 1, 19)
  ELSE SubSeq(s, 1, 16) \o ":00"

\* the text the IXDTF editor loads: (initial ?? "").trim()
StoredText == IF fieldValue.kind = "raw" THEN Trim(fieldValue.text) ELSE ""

\* C9: string parse allows partial success.  For every stored text the loaded
\* timeZone is the content of the trailing bracket pair when the text ends in
\* one and null otherwise, and the loaded dateTime is the leading
\* YYYY-MM-DDTHH:mm[:ss] (with :00 appended when the seconds are missing) when
\* the text starts with one and null otherwise; each field is decided by the
\* text alone, whatever the other field is.
C9_PartialParse ==
  (mode = "string" /\ pc = "loaded")
    => /\ zonedDateTime.timeZone = TrailingBracket(StoredText)
       /\ zonedDateTime.dateTime = LeadingDateTime(StoredText)

\* a stored text with a zone and no date-time has loaded as {null, zone}
C9_Witness ==
  /\ mode = "string" /\ pc = "loaded"
  /\ fieldValue = RawText("[Europe/Rome]")
  /\ zonedDateTime = ZonedValue(Null, "Europe/Rome")

\* C10 as stated: in every reachable state of the editor dateTime and
\* timeZone are both present or both absent.
C10_BothOrNeither ==
  IsMounted => (zonedDateTime.dateTime = Null <=> zonedDateTime.timeZone = Null)

\* the rendered or stored field value f is a value, not null and not {}
IsValue(f) ==
  \/ f.kind = "raw"
  \/ f.kind = "json" /\ f.json.type = "object" /\ f.json.obj # << >>

\* C10, amended: the editor's state may hold one field without the other
\* (after a partial parse, between the pick of a date and the pick of a
\* zone); the value it renders, and stores once its persist step has run, is
\* a value only when both fields are present, and null or {} otherwise.
C10_ValueOnlyWhenBoth ==
  /\ IsMounted
       => (IsValue(output)
             => zonedDateTime.dateTime # Null /\ zonedDateTime.timeZone # Null)
  /\ pc = "idle" => fieldValue = output

\* a date is picked, no zone yet, and the stored value is null
C10_Witness ==
  /\ pc = "idle" /\ mode = "string"
  /\ zonedDateTime.dateTime = "2025-07-15T12:00:00"
  /\ zonedDateTime.timeZone = Null
  /\ fieldValue = NullField

\* C11: whenever dateTime is present in the editor's state, produced by a
\* parse of the stored value (string or object, any strategy) or by a date
\* edit, it has exactly the form YYYY-MM-DDTHH:mm:ss.
C11_DateTimeHasSeconds ==
  (IsMounted /\ zonedDateTime.dateTime # Null) => IsLocalIso(zonedDateTime.dateTime)

\* the no-value sentinel of the editor: null, respectively "{}"
NoValue(m) == IF m = "string" THEN NullField ELSE JSONstringify(JObject(<< >>))

\* C12: output boundary.  Once the persist step has run, after load and after
\* every edit, the stored field value is the codec's output for the editor's
\* state (formatToIxdtf in the IXDTF editor, the serialised buildDatoOutput in
\* the JSON editor, rendered at an instant that has passed), and it is the
\* no-value sentinel in every state where dateTime or timeZone is missing.
C12_StoredIsCodecOutput ==
  pc = "idle"
    => /\ \E n \in 1..now : fieldValue = Render(mode, zonedDateTime, NowSamples[n])
       /\ (zonedDateTime.dateTime = Null \/ zonedDateTime.timeZone = Null)
            => fieldValue = NoValue(mode)

\* the JSON editor has stored the payload of an edited state
C12_Witness ==
  /\ pc = "idle" /\ mode = "json"
  /\ zonedDateTime = ZonedValue("2025-07-15T12:00:00", "Europe/Rome")
  /\ fieldValue.kind = "json"
  /\ fieldValue.json.obj # << >>
  /\ fieldValue.json.obj["zonedDateTime"].val
       = "2025-07-15T12:00:00+02:00[Europe/Rome]"

\* C13: buildDatoOutput resolves as formatToIxdtf does.  For every ZonedValue
\* the editor holds and every instant, buildDatoOutput is {} exactly when
\* formatToIxdtf is null, and otherwise its zonedDateTime is formatToIxdtf's
\* text.
C13_SameResolution ==
  IsMounted
    => \A n \in 1..Len(NowSamples) :
         IF formatToIxdtf(zonedDateTime, NowSamples[n]) = Null
         THEN buildDatoOutput(zonedDateTime, NowSamples[n]) = << >>
         ELSE /\ buildDatoOutput(zonedDateTime, NowSamples[n]) # << >>
              /\ buildDatoOutput(zonedDateTime, NowSamples[n])["zonedDateTime"].val
                   = formatToIxdtf(zonedDateTime, NowSamples[n])

\* the JSON editor holds 1996-12-19T16:39:57 in America/Los_Angeles and has
\* stored a payload whose zonedDateTime is what formatToIxdtf writes
C13_Witness ==
  /\ pc = "idle" /\ mode = "json"
  /\ zonedDateTime = ZonedValue("1996-12-19T16:39:57", "America/Los_Angeles")
  /\ fieldValue.json.obj # << >>
  /\ fieldValue.json.obj["zonedDateTime"].val
       = formatToIxdtf(zonedDateTime, nowTs)

\* the minutes of an offset text +HH:MM or -HH:MM
OffsetMinutes(text) ==
  (IF SubSeq(text, 1, 1) = "-" THEN -1 ELSE 1)
    * (NumVal(SubSeq(text, 2, 3)) * 60 + NumVal(SubSeq(text, 5, 6)))

\* the members of a payload that hold for every zone: the IXDTF text is the
\* ISO datetime followed by [zone], and the timestamp is the number of
\* seconds from 1970-01-01T00:00:00Z to (date, time_24hr) minus the offset
PayloadAgrees(p) ==
  /\ p["zonedDateTime"].val = p["dateTime"].val \o "[" \o p["zone"].val \o "]"
  /\ IsLocalIso(p["date"].val \o "T" \o p["time_24hr"].val)
  /\ NumVal(p["timestamp"].val)
       = ObjToLocalTS(IsoFields(p["date"].val \o "T" \o p["time_24hr"].val))
           - OffsetMinutes(p["offset"].val) * 60
  /\ p["zone"].val = "America/Los_Angeles" /\ p["date"].val = "1996-12-19"
       /\ p["time_24hr"].val = "16:39:57"
       => /\ p["offset"].val = "-08:00"
          /\ p["time_12hr"].val = "04:39:57"
          /\ p["ampm"].val = "pm"
          /\ p["timestamp"].val = "851042397"

\* the payload the JSON editor has rendered is not {}
HasPayload ==
  /\ IsMounted /\ mode = "json"
  /\ output.kind = "json" /\ output.json.obj # << >>

\* C14 as stated: every non-empty payload is consistent: zonedDateTime is
\* dateTime followed by [zone], dateTime is date + T + time_24hr + offset,
\* timestamp is the epoch second of (date, time_24hr) minus offset; the
\* README's value gives -08:00, 1996-12-19, 16:39:57, 04:39:57, pm, 851042397.
C14_PayloadConsistent ==
  HasPayload
    => /\ PayloadAgrees(output.json.obj)
       /\ output.json.obj["dateTime"].val
            = output.json.obj["date"].val \o "T" \o output.json.obj["time_24hr"].val
                \o output.json.obj["offset"].val

\* C14, amended: as stated, but in the ISO datetime (and so in the IXDTF
\* text) the offset of the zones UTC and GMT is written Z, while the offset
\* member is +00:00.
C14_PayloadConsistentUpToZ ==
  HasPayload
    => /\ PayloadAgrees(output.json.obj)
       /\ output.json.obj["dateTime"].val
            = output.json.obj["date"].val \o "T" \o output.json.obj["time_24hr"].val
                \o (IF output.json.obj["zone"].val \in {"UTC", "utc", "GMT", "gmt"}
                    THEN "Z" ELSE output.json.obj["offset"].val)
       /\ output.json.obj["zone"].val \in {"UTC", "utc", "GMT", "gmt"}
            => output.json.obj["offset"].val = "+00:00"

\* the JSON editor has rendered the README's payload
C14_Witness ==
  /\ HasPayload
  /\ zonedDateTime = ZonedValue("1996-12-19T16:39:57", "America/Los_Angeles")
  /\ output.json.obj["timestamp"].val = "851042397"

\* one round through the string codec and through the JSON codec: the value
\* is written at instant NowSamples[n] and parsed again
RoundString(v, n) == parseIxdtf(formatToIxdtf(v, NowSamples[n]))

RoundJson(v, n) == parseDatoValue(JObject(buildDatoOutput(v, NowSamples[n])))

\* C15 as stated: for every stored input x, writing parse(x) with the codec
\* and parsing it again gives parse(x).
C15_ReparseIsNoOp ==
  pc = "loaded"
    => \A n \in 1..Len(NowSamples) :
         /\ mode = "string" => RoundString(zonedDateTime, n) = zonedDateTime
         /\ mode = "json" => RoundJson(zonedDateTime, n) = zonedDateTime

\* C15, amended: the round "write, then parse" is idempotent: for every
\* stored input x a second round changes nothing the first round gave; and
\* the first round gives parse(x) itself when parse(x) holds a zone of the
\* zone database and a wall time that the zone's rules give an offset.  (A
\* parse(x) with a field missing, an unknown zone or a wall time in a DST
\* gap is changed by the first round.)
C15_RoundIsIdempotent ==
  pc = "loaded"
    => \A n, m \in 1..Len(NowSamples) :
         /\ RoundString(RoundString(zonedDateTime, n), m)
              = RoundString(zonedDateTime, n)
         /\ RoundJson(RoundJson(zonedDateTime, n), m) = RoundJson(zonedDateTime, n)
         /\ (HoldsWallTime /\ HeldOffsets # {})
              => /\ RoundString(zonedDateTime, n) = zonedDateTime
                 /\ RoundJson(zonedDateTime, n) = zonedDateTime

\* the editor has loaded a wall time in a DST gap: the first round moves it
\* out of the gap, a second round leaves it there
C15_Witness ==
  /\ pc = "loaded"
  /\ zonedDateTime = ZonedValue("2025-03-09T02:30:00", "America/Chicago")
  /\ RoundString(zonedDateTime, 1)
       = ZonedValue("2025-03-09T03:30:00", "America/Chicago")

\* the kind an option was built with
KindOf(opt) == IF opt.group = suggestedLabel THEN "suggested" ELSE "regular"

\* C16: whenever the option list is rendered at instant t, each option's
\* offsetMin and the offset text in its label are those of its zone at t, also
\* after a DST boundary has passed while the editor stays mounted
C16_OffsetsOfRenderInstant ==
  pc = "idle" =>
    \A i \in 1..Len(options) :
      /\ options[i].offsetMin = ZoneOffset(options[i].tz, NowSamples[renderedAt])
      /\ options[i].label =
           makeZoneLabel(options[i].tz, KindOf(options[i]), NowSamples[renderedAt],
                         browserTimeZone, userPreferredTimeZone)

\* the indices of the suggested options
SuggestedIndices == {i \in 1..Len(options) : options[i].group = suggestedLabel}

\* C19: for every combination of site zone and browser zone, no zone id
\* occurs more than once among the suggested options the editor shows
C19_SuggestedDeduplicated ==
  pc = "idle" =>
    \A i, j \in SuggestedIndices : i # j => options[i].tz # options[j].tz

\* buildZoneOptions has been called
Called == DOMAIN params # {}

\* the claimed priority of a suggested zone
Rank(tz) ==
  IF tz = "UTC" THEN 0
  ELSE IF params.siteTimeZone # Null /\ tz = params.siteTimeZone THEN 1
  ELSE IF tz = params.browserTimeZone THEN 2
  ELSE 3

NumSuggested == Len(params.suggestedTimeZones)

\* the zone ids of the first n options
LeadingZones(n) == [i \in 1..n |-> options[i].tz]

\* C17: all suggested options precede all regional options; the suggested
\* options are in order of priority UTC, site zone, browser zone, other, those
\* of equal priority in their input order; UTC is first whenever it is given
C17_SuggestedFirstByPriority ==
  Called =>
    /\ Len(options) = NumSuggested + Len(params.timeZones)
    /\ \A i \in 1..Len(options) :
         (options[i].group = suggestedLabel) <=> (i <= NumSuggested)
    /\ \A i, j \in 1..NumSuggested :
         i < j => Rank(options[i].tz) <= Rank(options[j].tz)
    /\ \A r \in 0..3 :
         SelectSeq(LeadingZones(NumSuggested), LAMBDA z : Rank(z) = r)
           = SelectSeq(params.suggestedTimeZones, LAMBDA z : Rank(z) = r)
    /\ (\E i \in 1..NumSuggested : params.suggestedTimeZones[i] = "UTC")
         => options[1].tz = "UTC"

C17_Witness ==
  /\ Called
  /\ params.suggestedTimeZones = <<"America/Chicago", "Europe/Rome", "UTC">>
  /\ params.siteTimeZone = "Europe/Rome"
  /\ params.browserTimeZone = "America/Chicago"
  /\ LeadingZones(3) = <<"UTC", "Europe/Rome", "America/Chicago">>
  /\ Len(options) > 3

\* the regional part of the list
Regional == SubSeq(options, NumSuggested + 1, Len(options))

\* the group labels of the zones, in alphabetic order
GroupOrder == <<"America", "Asia", "Etc", "Europe">>

GroupIndex(g) == CHOOSE i \in 1..Len(GroupOrder) : GroupOrder[i] = g

\* C18: in the regional part, groups appear in alphabetic order of group
\* label, each group's options contiguous; within a group options ascend by
\* offset, and options of equal offset are ordered by label
C18_RegionalOrder ==
  Called =>
    \A i, j \in 1..Len(Regional) :
      i < j =>
        /\ GroupIndex(Regional[i].group) <= GroupIndex(Regional[j].group)
        /\ Regional[i].group = Regional[j].group
             => /\ Regional[i].offsetMin <= Regional[j].offsetMin
                /\ Regional[i].offsetMin = Regional[j].offsetMin
                     => localeCompare(Regional[i].label, Regional[j].label) <= 0

\* Phoenix is enumerated before Los Angeles and both are at UTC-7: the label
\* decides
C18_Witness ==
  /\ Called
  /\ params.now = NowSamples[2]
  /\ Len(params.timeZones) = 6
  /\ params.timeZones[4] = "America/Phoenix"
  /\ params.timeZones[5] = "America/Los_Angeles"
  /\ \E i \in 1..(Len(Regional) - 1) :
       /\ Regional[i].tz = "America/Los_Angeles"
       /\ Regional[i + 1].tz = "America/Phoenix"
       /\ Regional[i].offsetMin = Regional[i + 1].offsetMin

\* how often zone z is among the first n entries of seq
Occurrences(seq, z) == Cardinality({i \in 1..Len(seq) : seq[i] = z})

\* C20: when Intl.supportedValuesOf is missing or throws,
\* getSupportedTimeZones returns the empty list, and buildZoneOptions returns
\* exactly the suggested entries, the empty list when there are none
C20_OnlySuggestedWithoutEnumeration ==
  (Called /\ intl \in {"missing", "throws"}) =>
    /\ params.timeZones = << >>
    /\ Len(options) = NumSuggested
    /\ \A i \in 1..Len(options) : options[i].group = suggestedLabel
    /\ \A z \in SuggestedPool :
         Occurrences(LeadingZones(Len(options)), z)
           = Occurrences(params.suggestedTimeZones, z)
    /\ params.suggestedTimeZones = << >> => options = << >>

C20_Witness ==
  /\ Called
  /\ intl = "throws"
  /\ params.suggestedTimeZones = <<"Europe/Rome", "UTC">>
  /\ Len(options) = 2
  /\ options[1].tz = "UTC"

(***************************************************************************)
(* The search of the zone picker                                           *)
(***************************************************************************)

Searched == DOMAIN call # {} /\ call.fn = "filterZoneOptions"

\* t occurs in hay as a substring
Contains(hay, t) ==
  \E i \in 1..(Len(hay) - Len(t) + 1) : SubSeq(hay, i, i + Len(t) - 1) = t

\* the whitespace-separated tokens of a normalized text
RECURSIVE TokensOf(_)
TokensOf(norm) ==
  IF norm = "" THEN {}
  ELSE IF \A i \in 1..Len(norm) : SubSeq(norm, i, i) # " " THEN {norm}
  ELSE LET sp == CHOOSE i \in 1..Len(norm) :
                   /\ SubSeq(norm, i, i) = " "
                   /\ \A k \in 1..(i - 1) : SubSeq(norm, k, k) # " "
       IN  (IF sp > 1 THEN {SubSeq(norm, 1, sp - 1)} ELSE {})
             \cup TokensOf(SubSeq(norm, sp + 1, Len(norm)))

\* the Europe/Rome options whose label shows UTC+2
RomeAtPlus2(opts) ==
  {i \in 1..Len(opts) : opts[i].tz = "Europe/Rome" /\ Contains(opts[i].label, "UTC+2")}

\* C21: the filter returns exactly the options, in their original order,
\* whose haystack contains every whitespace-separated token of the normalized
\* query as a substring; a query that is empty or normalizes to empty returns
\* all options unchanged; the queries 'rome' and 'utc+2' keep a Europe/Rome
\* option whose label shows UTC+2 and 'asia tokyo' drops it
C21_FilterKeepsAllTokenMatches ==
  Searched =>
    LET norm == normalizeForSearch(call.arg)
    IN  /\ result = SelectSeq(options, LAMBDA o :
                      \A t \in TokensOf(norm) : Contains(o.searchHay, t))
        /\ (norm = "" => result = options)
        /\ \A i \in RomeAtPlus2(options) :
             /\ call.arg \in {"rome", "utc+2"} =>
                  \E k \in 1..Len(result) : result[k] = options[i]
             /\ call.arg = "asia tokyo" =>
                  \A k \in 1..Len(result) : result[k] # options[i]

\* a search with two tokens that drops options matching only one of them,
\* over a list that holds Europe/Rome at UTC+2
C21_Witness ==
  /\ Searched
  /\ call.arg = "asia tokyo"
  /\ RomeAtPlus2(options) # {}
  /\ \E i \in 1..Len(options) : Contains(options[i].searchHay, "asia")
  /\ result = << >>

Normalized == DOMAIN call # {} /\ call.fn = "normalizeForSearch"

\* the base letters, in lower case, of pieces written with accents or capitals
Unaccented(piece) ==
  CASE piece = "São" -> "sao"
    [] piece = "é"   -> "e"
    [] piece = "A1"  -> "a1"
    [] OTHER         -> piece

\* C22: normalize returns a canonical form: only the characters a-z, 0-9 and
\* single spaces, no leading or trailing space, no two adjacent spaces,
\* accented Latin letters reduced to their base letter, and normalizing the
\* result again changes nothing
C22_NormalizeCanonical ==
  Normalized =>
    /\ \A i \in 1..Len(result) :
         \/ SubSeq(result, i, i) = " "
         \/ \E k \in 1..36 :
              SubSeq("abcdefghijklmnopqrstuvwxyz0123456789", k, k) = SubSeq(result, i, i)
    /\ result # "" => SubSeq(result, 1, 1) # " " /\ SubSeq(result, Len(result), Len(result)) # " "
    /\ \A i \in 1..(Len(result) - 1) : SubSeq(result, i, i + 1) # "  "
    /\ \A a, b, c \in {"", "São", "é", "A1"} :
         call.arg = a \o b \o c => result = Unaccented(a) \o Unaccented(b) \o Unaccented(c)
    /\ normalizeForSearch(result) = result

\* an input with accents, a capital, a separator run and spaces at both ends
C22_Witness ==
  /\ Normalized
  /\ call.arg = " São-"
  /\ result = "sao"

OffsetFormatted == DOMAIN call # {} /\ call.fn = "utcOffsetStringForZone"

\* the number a text of decimal digits writes, -1 for any other text
RECURSIVE DecimalValue(_)
DecimalValue(s) ==
  IF s = "" THEN -1
  ELSE LET last == SubSeq(s, Len(s), Len(s))
           d == IF \E k \in 0..9 : SubSeq("0123456789", k + 1, k + 1) = last
                THEN CHOOSE k \in 0..9 : SubSeq("0123456789", k + 1, k + 1) = last
                ELSE -1
           front == IF Len(s) = 1 THEN 0 ELSE DecimalValue(SubSeq(s, 1, Len(s) - 1))
       IN  IF d = -1 \/ front = -1 THEN -1 ELSE 10 * front + d

\* C23: an offset of m minutes is formatted as 'UTC', the sign ('+' when
\* m >= 0, '-' otherwise), the hours floor(|m|/60) without a leading zero,
\* and ':MM' (two digits, |m| mod 60) exactly when the minutes part is not
\* zero; 0 gives 'UTC+0', 120 gives 'UTC+2', -210 gives 'UTC-3:30'
C23_OffsetStringFormat ==
  OffsetFormatted =>
    LET m == call.arg
        abs == IF m >= 0 THEN m ELSE -m
        rest == SubSeq(result, 5, Len(result))
        hours == IF abs % 60 = 0 THEN rest ELSE SubSeq(rest, 1, Len(rest) - 3)
    IN  /\ SubSeq(result, 1, 3) = "UTC"
        /\ SubSeq(result, 4, 4) = (IF m >= 0 THEN "+" ELSE "-")
        /\ DecimalValue(hours) = abs \div 60
        /\ Len(hours) > 1 => SubSeq(hours, 1, 1) # "0"
        /\ abs % 60 # 0 =>
             /\ SubSeq(rest, Len(rest) - 2, Len(rest) - 2) = ":"
             /\ DecimalValue(SubSeq(rest, Len(rest) - 1, Len(rest))) = abs % 60
        /\ (m = 0 => result = "UTC+0")
        /\ (m = 120 => result = "UTC+2")
        /\ (m = -210 => result = "UTC-3:30")

\* a negative offset with a minutes part below ten
C23_Witness ==
  /\ OffsetFormatted
  /\ call.arg = -605
  /\ result = "UTC-10:05"

Grouped == DOMAIN call # {} /\ call.fn = "groupForTimeZone"

\* C24: UTC, GMT and every id starting with Etc/ are mapped to one and the
\* same dedicated group label; every other zone id is mapped to its top-level
\* path segment, the text before the first '/'; the group label is never
\* empty, also for a text whose first segment is empty, which no zone id is
C24_GroupOfZone ==
  Grouped =>
    LET tz == call.arg
        dedicated == tz \in {"UTC", "GMT"} \/ (Len(tz) >= 4 /\ SubSeq(tz, 1, 4) = "Etc/")
    IN  /\ dedicated => result = "Etc"
        /\ (~dedicated /\ tz # "" /\ SubSeq(tz, 1, 1) # "/") =>
             /\ \A i \in 1..Len(result) : SubSeq(result, i, i) # "/"
             /\ \/ tz = result
                \/ /\ Len(tz) > Len(result)
                   /\ SubSeq(tz, 1, Len(result) + 1) = result \o "/"
        /\ result # ""

\* GMT, which has no '/', lands in the group of the Etc/ zones
C24_Witness ==
  /\ Grouped
  /\ call.arg = "GMT"
  /\ result = "Etc"

Flagged == DOMAIN call # {} /\ call.fn = "toFlagEmoji"

\* the place of a letter in the alphabet, whatever its case; 0 for any
\* other character
LetterIndex(ch) ==
  IF \E k \in 1..26 : ch \in {SubSeq("ABCDEFGHIJKLMNOPQRSTUVWXYZ", k, k),
                              SubSeq("abcdefghijklmnopqrstuvwxyz", k, k)}
  THEN CHOOSE k \in 1..26 : ch \in {SubSeq("ABCDEFGHIJKLMNOPQRSTUVWXYZ", k, k),
                                    SubSeq("abcdefghijklmnopqrstuvwxyz", k, k)}
  ELSE 0

\* the regional indicator symbol of the k-th letter, U+1F1E6 + (k - 1)
IndicatorOfLetter(k) == SubSeq("ⒶⒷⒸⒹⒺⒻⒼⒽⒾⒿⓀⓁⓂⓃⓄⓅⓆⓇⓈⓉⓊⓋⓌⓍⓎⓏ", k, k)

\* C28: toFlagEmoji returns the empty string for every input that is not a
\* two-letter country code (empty, wrong length, or two characters that are
\* not both ASCII letters), and for a two-letter code the two regional
\* indicator symbols of its upper-cased letters, the same for both cases
C28_FlagOrEmpty ==
  Flagged =>
    LET cc == call.arg
        valid == /\ Len(cc) = 2
                 /\ LetterIndex(SubSeq(cc, 1, 1)) # 0
                 /\ LetterIndex(SubSeq(cc, 2, 2)) # 0
    IN  IF valid
        THEN result = IndicatorOfLetter(LetterIndex(SubSeq(cc, 1, 1)))
                        \o IndicatorOfLetter(LetterIndex(SubSeq(cc, 2, 2)))
        ELSE result = ""

\* queries that differ in punctuation, sign, case and spacing
Queries ==
  {"", "   ", "+", "rome", "Rome", "  rome ", "utc+2", "utc-2", "utc 2", "UTC+2",
   "asia tokyo", "europe rome"}

\* C30: the search ignores punctuation and the sign of an offset: two queries
\* with the same normalization return the same options from the same list; in
\* particular 'utc+2', 'utc-2' and 'utc 2' return the same options
C30_EqualNormalizationEqualResult ==
  Searched =>
    /\ \A q2 \in Queries :
         normalizeForSearch(q2) = normalizeForSearch(call.arg) =>
           filterZoneOptions(options, q2) = result
    /\ call.arg \in {"utc+2", "utc-2", "utc 2"} =>
         /\ result = filterZoneOptions(options, "utc+2")
         /\ result = filterZoneOptions(options, "utc-2")
         /\ result = filterZoneOptions(options, "utc 2")

\* the query 'utc-2' returns part of a list, with Europe/Rome at UTC+2 in it
C30_Witness ==
  /\ Searched
  /\ call.arg = "utc-2"
  /\ Len(result) < Len(options)
  /\ \E k \in 1..Len(result) :
       result[k].tz = "Europe/Rome" /\ Contains(result[k].label, "UTC+2")

(***************************************************************************)
(* The editors' zone picker and edits                                      *)
(***************************************************************************)

\* C25: in the JSON editor, in every state where the editor is disabled or
\* the local datetime is absent or empty, no zone change is accepted and
\* timeZone keeps its value; so a timeZone that is absent can become present
\* only in a state where a date edit has set the local datetime
C25_ZoneLockedWithoutDate ==
  [][(mode = "json" /\ pc = "idle") =>
       /\ (disabled \/ zonedDateTime.dateTime = Null \/ zonedDateTime.dateTime = "") =>
            zonedDateTime'.timeZone = zonedDateTime.timeZone
       /\ (zonedDateTime.timeZone = Null /\ zonedDateTime'.timeZone # Null) =>
            /\ zonedDateTime.dateTime # Null /\ zonedDateTime.dateTime # ""
            /\ zonedDateTime'.dateTime = zonedDateTime.dateTime]_vars

\* an enabled JSON editor that holds nothing: the zone picker waits for a date
C25_Witness ==
  /\ mode = "json" /\ pc = "idle" /\ ~disabled
  /\ zonedDateTime.dateTime = Null
  /\ zonedDateTime.timeZone = Null
  /\ isTimeZonePickerDisabled

\* the wall-clock date and time of a persisted value, "" when it has none
PersistedWallTime(fv) ==
  IF fv.kind = "json"
  THEN IF fv.json.type = "object" /\ "time_24hr" \in DOMAIN fv.json.obj
       THEN fv.json.obj["date"].val \o "T" \o fv.json.obj["time_24hr"].val
       ELSE ""
  ELSE IF fv.kind = "raw" /\ Len(fv.text) >= 19 THEN SubSeq(fv.text, 1, 19)
  ELSE ""

\* C26: edits are independent field updates: a date edit, clearing included,
\* changes only the local datetime and leaves timeZone unchanged; a zone edit
\* changes only timeZone; after a zone edit on a complete value the persisted
\* wall-clock date and time are the same as before
C26_IndependentFieldUpdates ==
  [][pc = "idle" =>
       /\ zonedDateTime'.dateTime # zonedDateTime.dateTime =>
            zonedDateTime'.timeZone = zonedDateTime.timeZone
       /\ zonedDateTime'.timeZone # zonedDateTime.timeZone =>
            zonedDateTime'.dateTime = zonedDateTime.dateTime
       /\ (/\ zonedDateTime'.timeZone # zonedDateTime.timeZone
           /\ PersistedWallTime(fieldValue) # ""
           /\ PersistedWallTime(fieldValue') # "") =>
            PersistedWallTime(fieldValue') = PersistedWallTime(fieldValue)]_vars

\* the options the mounted editor renders: buildZoneOptions of the runtime's
\* zones and the editor's suggested zones
EditorOptions ==
  buildZoneOptions(getSupportedTimeZones(intl, RuntimeTimeZones), nowTs,
                   suggestedTimeZonesOf(mode, userPreferredTimeZone, browserTimeZone),
                   browserTimeZone, userPreferredTimeZone)

\* C27: in every state of the JSON editor in which the zone picker is enabled
\* and shows an option as selected, that option's zone equals the state's
\* timeZone, and so the zone written to the stored value; the picker never
\* shows a zone as selected while the stored value is the empty object
\* because timeZone is absent
C27_SelectedZoneIsStateZone ==
  (mode = "json" /\ pc = "idle" /\ ~isTimeZonePickerDisabled) =>
    \A selected \in {AutocompleteValue(opts) : opts \in {EditorOptions}} :
      \A i \in 1..Len(selected) :
        /\ selected[i].tz = zonedDateTime.timeZone
        /\ ~(zonedDateTime.timeZone = Null /\ fieldValue = JSONstringify(JObject(<< >>)))

PayloadBuilt ==
  /\ DOMAIN call # {} /\ call.fn = "buildDatoOutput"
  /\ result # << >>

\* C29: in every non-empty payload ampm is 'pm' exactly when the 24-hour
\* hour is 12..23; the hour of time_12hr is 12 for the hours 0 and 12 and
\* the hour mod 12 otherwise, so it is in 01..12; minutes and seconds are the
\* same in both; and time_24hr is determined by time_12hr and ampm
C29_TwelveHourFields ==
  PayloadBuilt =>
    LET t24 == result["time_24hr"].val
        t12 == result["time_12hr"].val
        pm == result["ampm"].val = "pm"
        h24 == DecimalValue(SubSeq(t24, 1, 2))
        h12 == DecimalValue(SubSeq(t12, 1, 2))
    IN  /\ result["ampm"].val \in {"am", "pm"}
        /\ pm <=> h24 \in 12..23
        /\ h12 = (IF h24 \in {0, 12} THEN 12 ELSE h24 % 12)
        /\ h12 \in 1..12 /\ Len(t12) = 8
        /\ SubSeq(t12, 3, 8) = SubSeq(t24, 3, 8)
        /\ h24 = (h12 % 12) + (IF pm THEN 12 ELSE 0)

\* the payload of a wall time just after midnight: hour 12, am
C29_Witness ==
  /\ PayloadBuilt
  /\ call.arg = ZonedValue("2025-07-15T00:05:57", "Asia/Kolkata")
  /\ result["time_24hr"].val = "00:05:57"
  /\ result["time_12hr"].val = "12:05:57"
  /\ result["ampm"].val = "am"

====
